---------------------------- MODULE Spec2Model ----------------------------
(***************************************************************************)
(* SpriteSlice: the frame-extraction core (services/processor) and the    *)
(* App component that drives it (generation passes, rect lists, frames).  *)
(*                                                                         *)
(* Conventions                                                             *)
(*  - An ImageData is [width, height, data]; data is the sequence of its   *)
(*    pixels in row-major order, pixel idx of the code (0-based) being     *)
(*    data[idx + 1]; a pixel is [r, g, b, a] (the four bytes at idx*4).    *)
(*  - A function that mutates its ImageData argument in place is an        *)
(*    operator returning the ImageData after the call.                     *)
(*  - null is NULL.  An id `grid-3` is [prefix |-> "grid", n |-> 3].       *)
(*  - A hex colour string is the sequence of its characters.               *)
(*  - Numbers are integers.  The feather ramp is computed in doubles by    *)
(*    the code; RoundRamp yields the double result for the tolerance and   *)
(*    feather values of the inputs below (see DoubleShortOfHalf).          *)
(***************************************************************************)
EXTENDS Integers, Sequences, FiniteSets, TLC

NULL == [null |-> TRUE]

Max0(x) == IF x > 0 THEN x ELSE 0

Abs(x) == IF x < 0 THEN -x ELSE x

SetMin(S) == CHOOSE x \in S : \A y \in S : x <= y

SetMax(S) == CHOOSE x \in S : \A y \in S : x >= y

(***************************************************************************)
(* hexToRgb                                                                *)
(***************************************************************************)
HexDigits ==
  <<"0","1","2","3","4","5","6","7","8","9","a","b","c","d","e","f">>

HexUpper == <<"A","B","C","D","E","F">>

\* the value of one character under /[a-f\d]/i, or -1 when it does not match
HexVal(ch) ==
  IF \E i \in 1..16 : HexDigits[i] = ch
    THEN (CHOOSE i \in 1..16 : HexDigits[i] = ch) - 1
    ELSE IF \E i \in 1..6 : HexUpper[i] = ch
      THEN (CHOOSE i \in 1..6 : HexUpper[i] = ch) + 9
      ELSE -1

\* mutant: the 3-digit form is accepted too, each digit doubled
hexToRgb_ShortForm(hex) ==
  LET body == IF Len(hex) > 0 /\ hex[1] = "#" THEN Tail(hex) ELSE hex
  IN IF Len(body) = 6 /\ \A i \in 1..6 : HexVal(body[i]) >= 0
       THEN [r |-> HexVal(body[1]) * 16 + HexVal(body[2]),
             g |-> HexVal(body[3]) * 16 + HexVal(body[4]),
             b |-> HexVal(body[5]) * 16 + HexVal(body[6])]
       ELSE IF Len(body) = 3 /\ \A i \in 1..3 : HexVal(body[i]) >= 0
         THEN [r |-> HexVal(body[1]) * 17,
               g |-> HexVal(body[2]) * 17,
               b |-> HexVal(body[3]) * 17]
         ELSE NULL

\* /^#?([a-f\d]{2})([a-f\d]{2})([a-f\d]{2})$/i and parseInt(.., 16)
hexToRgb(hex) ==
  LET body == IF Len(hex) > 0 /\ hex[1] = "#" THEN Tail(hex) ELSE hex
  IN IF Len(body) = 6 /\ \A i \in 1..6 : HexVal(body[i]) >= 0
       THEN [r |-> HexVal(body[1]) * 16 + HexVal(body[2]),
             g |-> HexVal(body[3]) * 16 + HexVal(body[4]),
             b |-> HexVal(body[5]) * 16 + HexVal(body[6])]
       ELSE NULL

(***************************************************************************)
(* applyColorKeyToImageData / applyColorKeysToImageData                    *)
(***************************************************************************)
distSq(p, targetColor) ==
  (p.r - targetColor.r) * (p.r - targetColor.r)
  + (p.g - targetColor.g) * (p.g - targetColor.g)
  + (p.b - targetColor.b) * (p.b - targetColor.b)

\* Math.round(alpha * (Math.sqrt(d2) - tol) / featherPx) for tol*tol < d2:
\* the k with k - 1/2 <= alpha*(sqrt(d2)-tol)/featherPx < k + 1/2, where
\* k - 1/2 <= v  iff  (2k-1)*featherPx + 2*alpha*tol <= 2*alpha*sqrt(d2).
RampAtLeast(k, alpha, d2, tol, featherPx) ==
  LET lhs == (2 * k - 1) * featherPx + 2 * alpha * tol
  IN lhs <= 0 \/ lhs * lhs <= 4 * alpha * alpha * d2

ExactRamp(alpha, d2, tol, featherPx) ==
  CHOOSE k \in 0..alpha :
    /\ RampAtLeast(k, alpha, d2, tol, featherPx)
    /\ ~RampAtLeast(k + 1, alpha, d2, tol, featherPx)

\* t = (dist - tol) / featherPx is rounded to a double before it is multiplied
\* by alpha.  The double product differs from the exact one by far less than
\* the distance of a non-half value to the next half, so Math.round differs
\* from exact rounding only where the exact product is a half and the double
\* product falls short of it.  For featherPx in {3, 6, 10} and alpha in 0..255
\* these are the <<alpha, dist - tol, featherPx>> where it does (0.7 is stored
\* as 0.6999999999999999556, and 45 * 0.7 as 31.499999999999996).
DoubleShortOfHalf ==
  { <<45, 7, 10>>, <<85, 7, 10>>, <<165, 7, 10>>, <<175, 7, 10>> }

\* data[i+3] = Math.round(data[i+3] * t)
RoundRamp(alpha, d2, tol, featherPx) ==
  IF \E n \in 1..featherPx :
       (tol + n) * (tol + n) = d2 /\ <<alpha, n, featherPx>> \in DoubleShortOfHalf
    THEN ExactRamp(alpha, d2, tol, featherPx) - 1
    ELSE ExactRamp(alpha, d2, tol, featherPx)

\* mutant: the tolerance branch halves alpha instead of clearing it
KeyPixel_HalvesAlpha(p, targetColor, tolerance, feather) ==
  LET tol == Max0(tolerance)
      featherPx == Max0(feather)
      d2 == distSq(p, targetColor)
  IN IF d2 <= tol * tol
       THEN [p EXCEPT !.a = p.a \div 2]
       ELSE IF featherPx > 0 /\ d2 <= (tol + featherPx) * (tol + featherPx)
         THEN [p EXCEPT !.a = RoundRamp(p.a, d2, tol, featherPx)]
         ELSE p

\* mutant: the tolerance test is strict
KeyPixel_StrictTolerance(p, targetColor, tolerance, feather) ==
  LET tol == Max0(tolerance)
      featherPx == Max0(feather)
      d2 == distSq(p, targetColor)
  IN IF d2 < tol * tol
       THEN [p EXCEPT !.a = 0]
       ELSE IF featherPx > 0 /\ d2 <= (tol + featherPx) * (tol + featherPx)
         THEN [p EXCEPT !.a = RoundRamp(p.a, d2, tol, featherPx)]
         ELSE p

\* mutant: a keyed-out pixel is cleared in all four channels
KeyPixel_ClearsRgb(p, targetColor, tolerance, feather) ==
  LET tol == Max0(tolerance)
      featherPx == Max0(feather)
      d2 == distSq(p, targetColor)
  IN IF d2 <= tol * tol
       THEN [r |-> 0, g |-> 0, b |-> 0, a |-> 0]
       ELSE IF featherPx > 0 /\ d2 <= (tol + featherPx) * (tol + featherPx)
         THEN [p EXCEPT !.a = RoundRamp(p.a, d2, tol, featherPx)]
         ELSE p

\* one iteration of the pixel loop: the pixel after the key
KeyPixel(p, targetColor, tolerance, feather) ==
  LET tol == Max0(tolerance)
      featherPx == Max0(feather)
      tolSq == tol * tol
      featherSq == (tol + featherPx) * (tol + featherPx)
      d2 == distSq(p, targetColor)
  IN IF d2 <= tolSq
       THEN [p EXCEPT !.a = 0]
       ELSE IF featherPx > 0 /\ d2 <= featherSq
         THEN [p EXCEPT !.a = RoundRamp(p.a, d2, tol, featherPx)]
         ELSE p

applyColorKeyToImageData(imageData, targetColor, tolerance, feather) ==
  [imageData EXCEPT !.data =
     [i \in 1..Len(imageData.data) |->
        KeyPixel(imageData.data[i], targetColor, tolerance, feather)]]

RECURSIVE ApplyKeysFrom(_, _, _, _, _)
ApplyKeysFrom(imageData, targetColors, k, tolerance, feather) ==
  IF k > Len(targetColors) THEN imageData
  ELSE ApplyKeysFrom(
         applyColorKeyToImageData(imageData, targetColors[k], tolerance, feather),
         targetColors, k + 1, tolerance, feather)

\* mutant: the loop returns after the first colour
applyColorKeysToImageData_FirstOnly(imageData, targetColors, tolerance, feather) ==
  IF Len(targetColors) = 0 THEN imageData
  ELSE applyColorKeyToImageData(imageData, targetColors[1], tolerance, feather)

\* mutant: only the last colour is applied
applyColorKeysToImageData_LastOnly(imageData, targetColors, tolerance, feather) ==
  IF Len(targetColors) = 0 THEN imageData
  ELSE applyColorKeyToImageData(imageData, targetColors[Len(targetColors)],
                                tolerance, feather)

applyColorKeysToImageData(imageData, targetColors, tolerance, feather) ==
  IF Len(targetColors) = 0 THEN imageData
  ELSE ApplyKeysFrom(imageData, targetColors, 1, tolerance, feather)


(***************************************************************************)
(* calculateGridRects                                                      *)
(***************************************************************************)
GridId(n) == [prefix |-> "grid", n |-> n]

\* mutant: a cell that ends exactly at the right edge is left out
RECURSIVE GridRow_StrictFit(_, _, _, _, _)
GridRow_StrictFit(imgWidth, grid, x, y, rects) ==
  IF x + grid.width < imgWidth
    THEN GridRow_StrictFit(imgWidth, grid, x + grid.width + grid.spacingX, y,
                 Append(rects, [id |-> GridId(Len(rects)), x |-> x, y |-> y,
                                w |-> grid.width, h |-> grid.height]))
    ELSE rects

\* the inner while loop: one row at height y, from cursor x
RECURSIVE GridRow(_, _, _, _, _)
GridRow(imgWidth, grid, x, y, rects) ==
  IF x + grid.width <= imgWidth
    THEN GridRow(imgWidth, grid, x + grid.width + grid.spacingX, y,
                 Append(rects, [id |-> GridId(Len(rects)), x |-> x, y |-> y,
                                w |-> grid.width, h |-> grid.height]))
    ELSE rects

\* the outer while loop, from cursor y; idCounter is Len(rects)
RECURSIVE GridRows(_, _, _, _, _)
GridRows(imgWidth, imgHeight, grid, y, rects) ==
  IF y + grid.height <= imgHeight
    THEN GridRows(imgWidth, imgHeight, grid, y + grid.height + grid.spacingY,
                  GridRow(imgWidth, grid, grid.marginX, y, rects))
    ELSE rects

calculateGridRects(imgWidth, imgHeight, grid) ==
  IF grid.width <= 0 \/ grid.height <= 0 THEN <<>>
  ELSE GridRows(imgWidth, imgHeight, grid, grid.marginY, <<>>)

(***************************************************************************)
(* detectIslands                                                           *)
(***************************************************************************)
\* mutant: `island-${++idCounter}`
IslandId_PreIncrement(n) == [prefix |-> "island", n |-> n + 1]

IslandId(n) == [prefix |-> "island", n |-> n]

\* isTransparent(idx): data[idx * 4 + 3] === 0
isTransparent(imageData, idx) == imageData.data[idx + 1].a = 0

\* mutant: left and right are not checked against the row's ends
Neighbors_Wrap(curr, width) ==
  << curr - width, curr + width, curr - 1, curr + 1 >>

\* the neighbours of curr, in the order of the code's array
Neighbors(curr, width) ==
  LET cx == curr % width
  IN << curr - width,
        curr + width,
        IF cx > 0 THEN curr - 1 ELSE -1,
        IF cx < width - 1 THEN curr + 1 ELSE -1 >>

\* the for loop over the four neighbours: [stack, visited] after it
RECURSIVE PushNeighbors(_, _, _, _, _)
PushNeighbors(imageData, ns, k, stack, visited) ==
  IF k > Len(ns) THEN [stack |-> stack, visited |-> visited]
  ELSE LET n == ns[k]
       IN IF /\ n >= 0
             /\ n < imageData.width * imageData.height
             /\ n \notin visited
             /\ ~isTransparent(imageData, n)
            THEN PushNeighbors(imageData, ns, k + 1, Append(stack, n),
                               visited \cup {n})
            ELSE PushNeighbors(imageData, ns, k + 1, stack, visited)

\* the while (stack.length > 0) loop: [visited, box] when the stack is empty
RECURSIVE FloodFill(_, _, _, _)
FloodFill(imageData, stack, visited, box) ==
  IF Len(stack) = 0 THEN [visited |-> visited, box |-> box]
  ELSE LET curr == stack[Len(stack)]
           popped == SubSeq(stack, 1, Len(stack) - 1)
           cy == curr \div imageData.width
           cx == curr % imageData.width
           nbox == [minX |-> IF cx < box.minX THEN cx ELSE box.minX,
                    maxX |-> IF cx > box.maxX THEN cx ELSE box.maxX,
                    minY |-> IF cy < box.minY THEN cy ELSE box.minY,
                    maxY |-> IF cy > box.maxY THEN cy ELSE box.maxY]
           pushed == PushNeighbors(imageData, Neighbors(curr, imageData.width),
                                   1, popped, visited)
       IN FloodFill(imageData, pushed.stack, pushed.visited, nbox)

\* the two for loops over y and x, as one scan over idx = y * width + x
RECURSIVE ScanIslands(_, _, _, _, _, _)
ScanIslands(imageData, idx, visited, rects, minWidth, minHeight) ==
  IF idx >= imageData.width * imageData.height THEN rects
  ELSE IF idx \in visited \/ isTransparent(imageData, idx)
    THEN ScanIslands(imageData, idx + 1, visited, rects, minWidth, minHeight)
    ELSE LET x == idx % imageData.width
             y == idx \div imageData.width
             fill == FloodFill(imageData, <<idx>>, visited \cup {idx},
                               [minX |-> x, maxX |-> x, minY |-> y, maxY |-> y])
             w == fill.box.maxX - fill.box.minX + 1
             h == fill.box.maxY - fill.box.minY + 1
             out == IF w >= minWidth /\ h >= minHeight
                      THEN Append(rects, [id |-> IslandId(Len(rects)),
                                          x |-> fill.box.minX, y |-> fill.box.minY,
                                          w |-> w, h |-> h])
                      ELSE rects
         IN ScanIslands(imageData, idx + 1, fill.visited, out, minWidth, minHeight)

detectIslands(imageData, minWidth, minHeight) ==
  ScanIslands(imageData, 0, {}, <<>>, minWidth, minHeight)

(***************************************************************************)
(* getTrimmedBounds                                                        *)
(***************************************************************************)
\* mutant: the scan tests alpha >= 0
RECURSIVE ScanBounds_AnyAlpha(_, _, _)
ScanBounds_AnyAlpha(imageData, idx, acc) ==
  IF idx >= imageData.width * imageData.height THEN acc
  ELSE LET x == idx % imageData.width
           y == idx \div imageData.width
           alpha == imageData.data[idx + 1].a
       IN IF alpha >= 0
            THEN ScanBounds_AnyAlpha(imageData, idx + 1,
                   [minX |-> IF x < acc.minX THEN x ELSE acc.minX,
                    maxX |-> IF x > acc.maxX THEN x ELSE acc.maxX,
                    minY |-> IF y < acc.minY THEN y ELSE acc.minY,
                    maxY |-> IF y > acc.maxY THEN y ELSE acc.maxY])
            ELSE ScanBounds_AnyAlpha(imageData, idx + 1, acc)

\* the scan, as one loop over idx = y * width + x; acc is [minX, minY, maxX, maxY]
RECURSIVE ScanBounds(_, _, _)
ScanBounds(imageData, idx, acc) ==
  IF idx >= imageData.width * imageData.height THEN acc
  ELSE LET x == idx % imageData.width
           y == idx \div imageData.width
           alpha == imageData.data[idx + 1].a
       IN IF alpha > 0
            THEN ScanBounds(imageData, idx + 1,
                   [minX |-> IF x < acc.minX THEN x ELSE acc.minX,
                    maxX |-> IF x > acc.maxX THEN x ELSE acc.maxX,
                    minY |-> IF y < acc.minY THEN y ELSE acc.minY,
                    maxY |-> IF y > acc.maxY THEN y ELSE acc.maxY])
            ELSE ScanBounds(imageData, idx + 1, acc)

BoundsAcc(imageData) ==
  ScanBounds(imageData, 0,
    [minX |-> imageData.width, minY |-> imageData.height, maxX |-> -1, maxY |-> -1])

\* mutant: the empty check tests maxX against 0 instead of the sentinel -1
getTrimmedBounds_ZeroSentinel(imageData) ==
  LET acc == BoundsAcc(imageData)
  IN IF acc.maxX <= 0 THEN NULL
     ELSE [x |-> acc.minX, y |-> acc.minY,
           w |-> acc.maxX - acc.minX + 1, h |-> acc.maxY - acc.minY + 1]

\* mutant: the width is maxX - minX
getTrimmedBounds_OffByOne(imageData) ==
  LET acc == BoundsAcc(imageData)
  IN IF acc.maxX = -1 THEN NULL
     ELSE [x |-> acc.minX, y |-> acc.minY,
           w |-> acc.maxX - acc.minX, h |-> acc.maxY - acc.minY + 1]

getTrimmedBounds(imageData) ==
  LET acc == BoundsAcc(imageData)
  IN IF acc.maxX = -1 THEN NULL
     ELSE [x |-> acc.minX, y |-> acc.minY,
           w |-> acc.maxX - acc.minX + 1, h |-> acc.maxY - acc.minY + 1]

(***************************************************************************)
(* extractFrame                                                            *)
(***************************************************************************)
TransparentPixel == [r |-> 0, g |-> 0, b |-> 0, a |-> 0]

\* ctx.drawImage(sourceImage, rect.x, rect.y, rect.w, rect.h, 0, 0, rect.w, rect.h)
\* on a fresh rect.w x rect.h canvas, then ctx.getImageData(0, 0, rect.w, rect.h):
\* the part of the rect that lies outside the image stays transparent black
SliceImage(sourceImage, rect) ==
  [width |-> rect.w, height |-> rect.h,
   data |-> [i \in 1..(rect.w * rect.h) |->
     LET sx == rect.x + ((i - 1) % rect.w)
         sy == rect.y + ((i - 1) \div rect.w)
     IN IF sx >= 0 /\ sx < sourceImage.width /\ sy >= 0 /\ sy < sourceImage.height
          THEN sourceImage.data[sy * sourceImage.width + sx + 1]
          ELSE TransparentPixel]]

\* colorKeyColors.map(hexToRgb).filter(c => !!c)
RECURSIVE ValidRgbs(_)
ValidRgbs(colorKeyColors) ==
  IF Len(colorKeyColors) = 0 THEN <<>>
  ELSE LET c == hexToRgb(Head(colorKeyColors))
       IN IF c = NULL THEN ValidRgbs(Tail(colorKeyColors))
          ELSE <<c>> \o ValidRgbs(Tail(colorKeyColors))

\* mutant: one malformed entry switches the key off
ColorKeyStep_AllOrNothing(imageData, processing) ==
  IF processing.colorKeyEnabled
    THEN LET rgbs == ValidRgbs(processing.colorKeyColors)
         IN IF Len(rgbs) > 0 /\ Len(rgbs) = Len(processing.colorKeyColors)
              THEN applyColorKeysToImageData(imageData, rgbs,
                     processing.colorKeyTolerance, processing.colorKeyFeather)
              ELSE imageData
    ELSE imageData

\* step 2 of extractFrame (and of the islands branch of generate)
ColorKeyStep(imageData, processing) ==
  IF processing.colorKeyEnabled
    THEN LET rgbs == ValidRgbs(processing.colorKeyColors)
         IN IF Len(rgbs) > 0
              THEN applyColorKeysToImageData(imageData, rgbs,
                     processing.colorKeyTolerance, processing.colorKeyFeather)
              ELSE imageData
    ELSE imageData

\* mutant: the pixels that are keyed are the source's own
SourceAfter_Shared(sourceImage, rect, buffer) ==
  [sourceImage EXCEPT !.data =
     [i \in DOMAIN sourceImage.data |->
        LET sx == (i - 1) % sourceImage.width
            sy == (i - 1) \div sourceImage.width
        IN IF /\ sx >= rect.x /\ sx < rect.x + rect.w
              /\ sy >= rect.y /\ sy < rect.y + rect.h
             THEN buffer.data[(sy - rect.y) * rect.w + (sx - rect.x) + 1]
             ELSE sourceImage.data[i]]]

\* The source image once `buffer`, the pixels of `rect` that a call read and
\* keyed, has been written: drawImage copies the source onto a canvas created
\* for the call and getImageData returns a copy of that canvas, so the source
\* keeps its pixels.
SourceAfter(sourceImage, rect, buffer) == sourceImage

\* mutant: the islands are detected on the image as loaded
KeyedImage_Unkeyed(image, processing) == image

\* the islands branch of generate: getImageData of the whole image on a canvas
\* of its own, keyed when color-keying is on
KeyedImage(image, processing) == ColorKeyStep(image, processing)

\* tCtx.putImageData(imageData, -bounds.x, -bounds.y) on a bounds.w x bounds.h canvas
CropImage(imageData, bounds) ==
  [width |-> bounds.w, height |-> bounds.h,
   data |-> [i \in 1..(bounds.w * bounds.h) |->
     imageData.data[(bounds.y + ((i - 1) \div bounds.w)) * imageData.width
                    + bounds.x + ((i - 1) % bounds.w) + 1]]]

\* canvas.toBlob yields null for a canvas without pixels
ToBlob(imageData) ==
  IF imageData.width = 0 \/ imageData.height = 0 THEN NULL ELSE imageData

\* ctx.getImageData(0, 0, sw, sh) throws IndexSizeError when sw or sh is 0
IndexSizeError == [error |-> "IndexSizeError"]

\* the Frame returned at the end of the auto-trim branch
TrimmedFrame(rect, blob, bounds) ==
  [id |-> rect.id, blob |-> blob, rect |-> rect,
   trimOffset |-> [x |-> bounds.x, y |-> bounds.y],
   trimmedSize |-> [w |-> bounds.w, h |-> bounds.h],
   originalSize |-> [w |-> rect.w, h |-> rect.h]]

FullFrame_SwappedSize(rect, blob) ==
  [id |-> rect.id, blob |-> blob, rect |-> rect,
   trimOffset |-> [x |-> 0, y |-> 0],
   trimmedSize |-> [w |-> rect.w, h |-> rect.h],
   originalSize |-> [w |-> rect.h, h |-> rect.w]]

\* mutant: the Frame gets an id of its own
FullFrame_FreshId(rect, blob) ==
  [id |-> [prefix |-> "frame", n |-> 0], blob |-> blob, rect |-> rect,
   trimOffset |-> [x |-> 0, y |-> 0],
   trimmedSize |-> [w |-> rect.w, h |-> rect.h],
   originalSize |-> [w |-> rect.w, h |-> rect.h]]

\* the Frame returned when autoTrim is off
FullFrame(rect, blob) ==
  [id |-> rect.id, blob |-> blob, rect |-> rect,
   trimOffset |-> [x |-> 0, y |-> 0],
   trimmedSize |-> [w |-> rect.w, h |-> rect.h],
   originalSize |-> [w |-> rect.w, h |-> rect.h]]

extractFrame(sourceImage, rect, settings) ==
  IF rect.w = 0 \/ rect.h = 0 THEN IndexSizeError
  ELSE
    LET imageData == ColorKeyStep(SliceImage(sourceImage, rect), settings.processing)
        bounds == getTrimmedBounds(imageData)
    IN IF bounds = NULL THEN NULL
       ELSE IF settings.processing.autoTrim
         THEN LET blob == ToBlob(CropImage(imageData, bounds))
              IN IF blob = NULL THEN NULL
                 ELSE TrimmedFrame(rect, blob, bounds)
         ELSE LET blob == ToBlob(imageData)
              IN IF blob = NULL THEN NULL
                 ELSE FullFrame(rect, blob)

(***************************************************************************)
(* State                                                                   *)
(***************************************************************************)
VARIABLES
  exRun,    \* one call of extractFrame: its arguments and its result
  isRun,    \* one call of detectIslands: its arguments and its results
  keyRun,   \* calls of applyColorKeysToImageData on one buffer
  ckRun,    \* calls of applyColorKeyToImageData on one buffer
  hexRun,   \* one call of hexToRgb: its argument and its result
  gridRun,  \* one call of calculateGridRects: its arguments and its result
  \* the state of the App component
  image,            \* NULL or the pixels of the loaded image
  settings,         \* mode, grid, islands, processing
  manualRects,
  islandRects,
  hiddenRectIds,
  generatedFrames,
  isProcessing,
  selectedRectId,   \* NULL or the id of the rect selected on the canvas
  project,          \* the saved project that the mount effect is loading
  preview,          \* the PreviewModal: mounted or not, currentFrame, isPlaying
  \* the generate effect
  timer,            \* the 500 ms timer of the current effect instance is pending
  passes,           \* the generate() calls that are running (alike ones counted once)
  effectPending,    \* a state change made by generate() awaits its re-render
  \* history
  events,           \* number of user events handled so far
  budget,           \* number of user events the run follows
  abandoned,        \* what the last superseded generate() had built at its end
  deleted           \* the rect of each frame the user deleted, at its last deletion

appVars ==
  <<image, settings, manualRects, islandRects, hiddenRectIds, generatedFrames,
    isProcessing, selectedRectId, project, preview, timer, passes, effectPending,
    events, budget, abandoned, deleted>>

pureVars == <<exRun, isRun, keyRun, ckRun, hexRun, gridRun>>

vars == <<pureVars, appVars>>

Idle == [idle |-> TRUE]

\* the calls that a specification does not make
NoOtherCalls == ckRun = Idle /\ hexRun = Idle /\ gridRun = Idle

Pixel(r, g, b, a) == [r |-> r, g |-> g, b |-> b, a |-> a]

\* the (w, h) with w * h <= n
Sizes(n) == {s \in (1..n) \X (1..n) : s[1] * s[2] <= n}

\* every ImageData of at most n pixels drawn from palette
ImagesUpTo(n, palette) ==
  UNION {{[width |-> s[1], height |-> s[2], data |-> d] :
            d \in [1..(s[1] * s[2]) -> palette]} : s \in Sizes(n)}

Processing(autoTrim, enabled, colors, tolerance, feather) ==
  [autoTrim |-> autoTrim, colorKeyEnabled |-> enabled, colorKeyColors |-> colors,
   colorKeyTolerance |-> tolerance, colorKeyFeather |-> feather]

\* grid settings without margins and spacings
Grid(width, height) ==
  [width |-> width, height |-> height, marginX |-> 0, marginY |-> 0,
   spacingX |-> 0, spacingY |-> 0]

Magenta == <<"#", "f", "f", "0", "0", "f", "f">>

DEFAULT_SETTINGS ==
  [mode |-> "grid",
   grid |-> [width |-> 32, height |-> 32, marginX |-> 0, marginY |-> 0,
             spacingX |-> 0, spacingY |-> 0],
   islands |-> [minWidth |-> 5, minHeight |-> 5],
   processing |-> Processing(FALSE, FALSE, <<Magenta>>, 10, 0)]

\* the user events a run follows
MaxEvents == 1

\* the App component after its first render, in a run that follows n user events
InitFollowing(n) ==
  /\ image = NULL
  /\ settings = DEFAULT_SETTINGS
  /\ manualRects = <<>>
  /\ islandRects = <<>>
  /\ hiddenRectIds = {}
  /\ generatedFrames = <<>>
  /\ isProcessing = FALSE
  /\ selectedRectId = NULL
  /\ preview = [open |-> FALSE, currentFrame |-> 0, isPlaying |-> TRUE]
  /\ project = [phase |-> "loading", image |-> NULL]
  /\ timer = FALSE
  /\ passes = {}
  /\ effectPending = FALSE
  /\ events = 0
  /\ budget = n
  /\ abandoned = NULL
  /\ deleted = {}

InitApp == InitFollowing(MaxEvents)

(***************************************************************************)
(* SpecExtract: extractFrame on every small image, rect and setting        *)
(***************************************************************************)
MaxPixels == 4

MaxSide == 2

MagentaUpper == <<"F", "F", "0", "0", "F", "F">>

Malformed == <<"#", "f", "0", "f">>

\* transparent; the key colour; a colour 12 away from it, nearly transparent;
\* the same, opaque; a colour far from the key
ExPalette ==
  { TransparentPixel, Pixel(255, 0, 255, 255), Pixel(255, 12, 255, 2),
    Pixel(0, 255, 0, 255) }

ExImages == ImagesUpTo(MaxPixels, ExPalette)

ExRect(x, y, w, h) ==
  [id |-> [prefix |-> "manual", n |-> 1], x |-> x, y |-> y, w |-> w, h |-> h]

\* rects inside, across and outside the image, and rects without pixels
ExRects ==
  {ExRect(o[1], o[2], w, h) :
     o \in {<<0, 0>>, <<-1, 0>>, <<0, 1>>}, w \in 0..MaxSide, h \in 1..MaxSide}
  \cup {ExRect(0, 0, 1, 0), ExRect(0, 0, 0, 0)}

ExProcessing ==
  { Processing(t, FALSE, <<Magenta>>, 10, 0) : t \in BOOLEAN }
  \cup { Processing(t, TRUE, <<Magenta>>, 10, 0) : t \in BOOLEAN }
  \cup { Processing(t, TRUE, <<Malformed, MagentaUpper>>, 10, 10) : t \in BOOLEAN }
  \cup { Processing(TRUE, TRUE, <<Malformed>>, 10, 10) }

InitExtract ==
  /\ exRun \in [sourceImage : ExImages, rect : ExRects,
                settings : [processing : ExProcessing],
                called : {FALSE}, result : {NULL}]
  /\ isRun = Idle
  /\ keyRun = Idle
  /\ NoOtherCalls
  /\ InitApp

ExtractFrame ==
  /\ ~exRun.called
  /\ exRun' = [exRun EXCEPT
       !.called = TRUE,
       !.result = extractFrame(exRun.sourceImage, exRun.rect, exRun.settings)]
  /\ UNCHANGED <<isRun, keyRun, ckRun, hexRun, gridRun, appVars>>

NextExtract == ExtractFrame

SpecExtract == InitExtract /\ [][NextExtract]_vars

(***************************************************************************)
(* Claims on extractFrame (SpecExtract)                                    *)
(***************************************************************************)
\* the (x, y) of the pixels of imageData with alpha > 0
OpaqueXY(imageData) ==
  {xy \in (0..(imageData.width - 1)) \X (0..(imageData.height - 1)) :
     imageData.data[xy[2] * imageData.width + xy[1] + 1].a > 0}

IsFrame(result) == "trimOffset" \in DOMAIN result

ExSlice == SliceImage(exRun.sourceImage, exRun.rect)

ExKeyedSlice == ColorKeyStep(ExSlice, exRun.settings.processing)

ExValidRect == exRun.rect.w > 0 /\ exRun.rect.h > 0

\* C1: for a rect (w > 0, h > 0) whose slice has no pixel with alpha > 0 after
\* the colour key of step 2, extractFrame returns null; with colour-keying
\* disabled it returns a Frame whenever the slice has a pixel with alpha > 0.
C1_EmptyAfterKeyIsAbsent ==
  (exRun.called /\ ExValidRect) =>
    /\ (OpaqueXY(ExKeyedSlice) = {} => exRun.result = NULL)
    /\ (~exRun.settings.processing.colorKeyEnabled /\ OpaqueXY(ExSlice) # {}
          => IsFrame(exRun.result))

\* a rect with opaque pixels that the colour key removes entirely
C1_Witness ==
  /\ exRun.called /\ ExValidRect
  /\ exRun.settings.processing.colorKeyEnabled
  /\ OpaqueXY(ExSlice) # {}
  /\ OpaqueXY(ExKeyedSlice) = {}
  /\ exRun.result = NULL

C3_NoTrimGeometry ==
  (exRun.called /\ ~exRun.settings.processing.autoTrim /\ IsFrame(exRun.result)) =>
    /\ exRun.result.trimOffset = [x |-> 0, y |-> 0]
    /\ exRun.result.trimmedSize = [w |-> exRun.rect.w, h |-> exRun.rect.h]
    /\ exRun.result.originalSize = [w |-> exRun.rect.w, h |-> exRun.rect.h]

\* an untrimmed Frame of a non-square rect whose content is smaller than the rect
C3_Witness ==
  /\ exRun.called /\ ~exRun.settings.processing.autoTrim /\ IsFrame(exRun.result)
  /\ exRun.settings.processing.colorKeyEnabled
  /\ exRun.rect.w # exRun.rect.h
  /\ Cardinality(OpaqueXY(ExKeyedSlice)) < exRun.rect.w * exRun.rect.h

\* C4: with autoTrim enabled a Frame's trimOffset and trimmedSize are the tight
\* bounding box of the pixels with alpha > 0 of the slice after colour-keying,
\* originalSize is (rect.w, rect.h), and the box lies inside the rect.
C4_TrimIsTightBoxAfterKey ==
  (exRun.called /\ exRun.settings.processing.autoTrim /\ IsFrame(exRun.result)) =>
    LET opaque == OpaqueXY(ExKeyedSlice)
        xs == {xy[1] : xy \in opaque}
        ys == {xy[2] : xy \in opaque}
        minX == SetMin(xs)
        minY == SetMin(ys)
        f == exRun.result
    IN /\ opaque # {}
       /\ f.trimOffset = [x |-> minX, y |-> minY]
       /\ f.trimmedSize = [w |-> SetMax(xs) - minX + 1, h |-> SetMax(ys) - minY + 1]
       /\ f.originalSize = [w |-> exRun.rect.w, h |-> exRun.rect.h]
       /\ 0 <= f.trimOffset.x /\ f.trimOffset.x + f.trimmedSize.w <= exRun.rect.w
       /\ 0 <= f.trimOffset.y /\ f.trimOffset.y + f.trimmedSize.h <= exRun.rect.h

\* a trimmed Frame whose box after keying differs from the box before keying
C4_Witness ==
  /\ exRun.called /\ exRun.settings.processing.autoTrim /\ IsFrame(exRun.result)
  /\ exRun.result.trimOffset.x > 0
  /\ exRun.result.trimmedSize.w < exRun.rect.w
  /\ getTrimmedBounds(ExSlice) # getTrimmedBounds(ExKeyedSlice)

\* the entries of colorKeyColors that are an optional "#" and six hex digits,
\* as colours, in list order
ExValidColours ==
  LET colours == exRun.settings.processing.colorKeyColors
      parsed == [i \in 1..Len(colours) |-> hexToRgb(colours[i])]
  IN SelectSeq(parsed, LAMBDA c : c # NULL)

\* C16: extractFrame keys the slice iff colorKeyEnabled holds and some entry
\* of colorKeyColors is a valid colour; malformed entries are dropped without
\* an error and the valid entries of the same list are applied; with keying
\* disabled or every entry malformed the pixels are those of the source. So the
\* call returns null when the slice so keyed has no visible pixel and otherwise
\* a Frame whose pixels are that slice (cropped to the trim box under autoTrim).
C16_KeyedIffEnabledAndSomeValid ==
  (exRun.called /\ ExValidRect) =>
    LET processing == exRun.settings.processing
        valid == ExValidColours
        keyed == processing.colorKeyEnabled /\ Len(valid) > 0
        slice == ExSlice
        expected == IF keyed
                      THEN applyColorKeysToImageData(slice, valid,
                             processing.colorKeyTolerance, processing.colorKeyFeather)
                      ELSE slice
        result == exRun.result
    IN /\ result = NULL \/ IsFrame(result)
       /\ (result = NULL) <=> (\A i \in DOMAIN expected.data : expected.data[i].a = 0)
       /\ IsFrame(result) =>
            IF processing.autoTrim
              THEN result.blob =
                     CropImage(expected,
                               [x |-> result.trimOffset.x, y |-> result.trimOffset.y,
                                w |-> result.trimmedSize.w, h |-> result.trimmedSize.h])
              ELSE result.blob = expected
       /\ (~keyed /\ IsFrame(result) /\ ~processing.autoTrim) => result.blob = slice

\* C16 witness: a list with a malformed entry and a valid one keyed a pixel of
\* the slice out and left a Frame
C16_Witness ==
  /\ exRun.called /\ ExValidRect
  /\ exRun.settings.processing.colorKeyEnabled
  /\ exRun.settings.processing.colorKeyColors = <<Malformed, MagentaUpper>>
  /\ ~exRun.settings.processing.autoTrim
  /\ IsFrame(exRun.result)
  /\ exRun.result.blob # ExSlice
  /\ \E i \in DOMAIN ExSlice.data :
       ExSlice.data[i].a = 255 /\ exRun.result.blob.data[i].a = 0

(***************************************************************************)
(* SpecIslands: detectIslands on every small image and threshold           *)
(***************************************************************************)
MaxIslandPixels == 9

MaxMinSize == 2

Opaque == Pixel(0, 255, 0, 255)

Faint == Pixel(0, 0, 0, 1)

IsImages == ImagesUpTo(MaxIslandPixels, {TransparentPixel, Opaque})

\* two 3x3 squares (one opaque, one of alpha 1) in a 9x5 buffer, one
\* transparent pixel around and between them
TwoSquares ==
  [width |-> 9, height |-> 5,
   data |-> [i \in 1..45 |->
     LET x == (i - 1) % 9
         y == (i - 1) \div 9
     IN IF y \in 1..3 /\ x \in 1..3 THEN Opaque
        ELSE IF y \in 1..3 /\ x \in 5..7 THEN Faint
        ELSE TransparentPixel]]

InitIslands ==
  /\ \/ isRun \in [imageData : IsImages, minWidth : 1..MaxMinSize,
                   minHeight : 1..MaxMinSize, runs : {<<>>}]
     \/ isRun \in [imageData : {TwoSquares}, minWidth : {1, 4},
                   minHeight : {1}, runs : {<<>>}]
  /\ exRun = Idle
  /\ keyRun = Idle
  /\ NoOtherCalls
  /\ InitApp

DetectIslands ==
  /\ Len(isRun.runs) < 2
  /\ isRun' = [isRun EXCEPT !.runs =
       Append(@, detectIslands(isRun.imageData, isRun.minWidth, isRun.minHeight))]
  /\ UNCHANGED <<exRun, keyRun, ckRun, hexRun, gridRun, appVars>>

NextIslands == DetectIslands

SpecIslands == InitIslands /\ [][NextIslands]_vars

(***************************************************************************)
(* Claims on detectIslands (SpecIslands)                                   *)
(***************************************************************************)
Adjacent4(p, q) == Abs(p[1] - q[1]) + Abs(p[2] - q[2]) = 1

\* the pixels of `opaque` joined to S by a chain of 4-adjacent pixels of `opaque`
RECURSIVE Connected(_, _)
Connected(S, opaque) ==
  LET T == S \cup {q \in opaque : \E p \in S : Adjacent4(p, q)}
  IN IF T = S THEN S ELSE Connected(T, opaque)

\* the maximal 4-connected components of the pixels with alpha > 0
Components(imageData) ==
  {Connected({p}, OpaqueXY(imageData)) : p \in OpaqueXY(imageData)}

BoxOf(C) ==
  LET xs == {p[1] : p \in C}
      ys == {p[2] : p \in C}
  IN [x |-> SetMin(xs), y |-> SetMin(ys),
      w |-> SetMax(xs) - SetMin(xs) + 1, h |-> SetMax(ys) - SetMin(ys) + 1]

\* the row-major position of the first pixel of C
FirstPixel(C, width) == SetMin({p[2] * width + p[1] : p \in C})

RectBox(r) == [x |-> r.x, y |-> r.y, w |-> r.w, h |-> r.h]

\* the components that pass the size threshold
Islands(imageData, minW, minH) ==
  {C \in Components(imageData) : BoxOf(C).w >= minW /\ BoxOf(C).h >= minH}

\* C7: detectIslands returns exactly one rect per maximal 4-connected component
\* of pixels with alpha > 0 whose bounding box has w >= minW and h >= minH, the
\* rect being the component's tight bounding box; smaller components give no
\* rect and are not merged; diagonal or row-wrapping contact does not connect.
C7_OneRectPerComponent ==
  \A k \in 1..Len(isRun.runs) :
    LET rects == isRun.runs[k]
        isl == Islands(isRun.imageData, isRun.minWidth, isRun.minHeight)
    IN /\ Len(rects) = Cardinality(isl)
       /\ \A C \in isl :
            Cardinality({i \in 1..Len(rects) : RectBox(rects[i]) = BoxOf(C)}) = 1
       /\ \A i \in 1..Len(rects) : \E C \in isl : RectBox(rects[i]) = BoxOf(C)

\* a run on an image where a component is dropped by the threshold, two
\* components touch only diagonally, and a rect is still returned
C7_Witness ==
  /\ Len(isRun.runs) > 0
  /\ Len(isRun.runs[1]) > 0
  /\ Cardinality(Components(isRun.imageData)) > Len(isRun.runs[1])
  /\ \E C, D \in Components(isRun.imageData) :
       C # D /\ \E p \in C, q \in D : Abs(p[1] - q[1]) = 1 /\ Abs(p[2] - q[2]) = 1

\* the spec's example: two 3x3 squares give two 3x3 rects, and none for minW = 4
C7_TwoSquaresExample ==
  (isRun.imageData = TwoSquares /\ Len(isRun.runs) > 0) =>
    IF isRun.minWidth = 4 THEN isRun.runs[1] = <<>>
    ELSE isRun.runs[1] =
           << [id |-> [prefix |-> "island", n |-> 0], x |-> 1, y |-> 1, w |-> 3, h |-> 3],
              [id |-> [prefix |-> "island", n |-> 1], x |-> 5, y |-> 1, w |-> 3, h |-> 3] >>

\* C8: the rects come in the order in which a row-major scan meets the first
\* pixel of their components, the k-th rect (from 0) has id island-k, and a
\* second run on the same buffer and thresholds returns the same list.
C8_DiscoveryOrderAndIds ==
  \A k \in 1..Len(isRun.runs) :
    LET rects == isRun.runs[k]
        isl == Islands(isRun.imageData, isRun.minWidth, isRun.minHeight)
        first(i) == FirstPixel(CHOOSE C \in isl : BoxOf(C) = RectBox(rects[i]),
                               isRun.imageData.width)
    IN /\ \A i \in 1..Len(rects) : rects[i].id = [prefix |-> "island", n |-> i - 1]
       /\ \A i \in 1..Len(rects) :
            \E C \in isl : BoxOf(C) = RectBox(rects[i])
       /\ \A i, j \in 1..Len(rects) : i < j => first(i) < first(j)
       /\ rects = isRun.runs[1]

\* two runs that returned two rects or more, a dropped component before them
C8_Witness ==
  /\ Len(isRun.runs) = 2
  /\ Len(isRun.runs[2]) >= 2
  /\ \E C \in Components(isRun.imageData) :
       /\ BoxOf(C).w < isRun.minWidth
       /\ FirstPixel(C, isRun.imageData.width) = 0

(***************************************************************************)
(* SpecKey: applyColorKeysToImageData on small buffers                     *)
(***************************************************************************)
MaxChannel == 5

MaxKeys == 2

KeyAlphas == {0, 2, 3, 255}

KeyPixels ==
  {Pixel(r, g, 0, a) : r \in 0..MaxChannel, g \in {0, 1}, a \in KeyAlphas}

KeyBuffers ==
  {[width |-> 1, height |-> 1, data |-> <<p>>] : p \in KeyPixels}
  \cup {[width |-> 2, height |-> 1, data |-> <<p, q>>] :
          p, q \in {Pixel(0, 0, 0, 255), Pixel(3, 0, 0, 2)}}

KeyColors == {[r |-> r, g |-> 0, b |-> 0] : r \in 0..MaxChannel}

KeyLists == UNION {[1..n -> KeyColors] : n \in 0..MaxKeys}

\* <<tolerance, feather>>
KeyParams == {<<0, 0>>, <<2, 0>>, <<0, 6>>, <<2, 3>>, <<-1, -1>>}

InitKey ==
  /\ \E b \in KeyBuffers, ts \in KeyLists, tf \in KeyParams :
       keyRun = [original |-> b, targetColors |-> ts,
                 tolerance |-> tf[1], feather |-> tf[2],
                 keyed |-> <<>>, reordered |-> NULL]
  /\ exRun = Idle
  /\ isRun = Idle
  /\ NoOtherCalls
  /\ InitApp

\* applyColorKeysToImageData on the buffer, which it mutates in place:
\* keyed[k] is the buffer after the k-th call
ApplyColorKeys ==
  /\ Len(keyRun.keyed) < 2
  /\ keyRun.reordered = NULL
  /\ LET imageData == IF Len(keyRun.keyed) = 0 THEN keyRun.original
                      ELSE keyRun.keyed[Len(keyRun.keyed)]
     IN keyRun' = [keyRun EXCEPT !.keyed = Append(@,
          applyColorKeysToImageData(imageData, keyRun.targetColors,
                                    keyRun.tolerance, keyRun.feather))]
  /\ UNCHANGED <<exRun, isRun, ckRun, hexRun, gridRun, appVars>>

\* applyColorKeysToImageData on a fresh copy of the original buffer, with the
\* same colours in another order
ApplyColorKeysReordered ==
  /\ Len(keyRun.keyed) = 1
  /\ keyRun.reordered = NULL
  /\ \E f \in Permutations(1..Len(keyRun.targetColors)) :
       LET ts == [i \in 1..Len(keyRun.targetColors) |-> keyRun.targetColors[f[i]]]
       IN keyRun' = [keyRun EXCEPT !.reordered =
            [targetColors |-> ts,
             imageData |-> applyColorKeysToImageData(keyRun.original, ts,
                             keyRun.tolerance, keyRun.feather)]]
  /\ UNCHANGED <<exRun, isRun, ckRun, hexRun, gridRun, appVars>>

NextKey == ApplyColorKeys \/ ApplyColorKeysReordered

SpecKey == InitKey /\ [][NextKey]_vars

(***************************************************************************)
(* Claims on applyColorKeysToImageData (SpecKey)                           *)
(***************************************************************************)
KeyTol == Max0(keyRun.tolerance)

KeyFeather == Max0(keyRun.feather)

\* pixel p is within the tolerance of the k-th colour
WithinTolerance(p, k) == distSq(p, keyRun.targetColors[k]) <= KeyTol * KeyTol

\* pixel p lies in the feather band of the k-th colour
InFeatherBand(p, k) ==
  /\ KeyFeather > 0
  /\ ~WithinTolerance(p, k)
  /\ distSq(p, keyRun.targetColors[k]) <= (KeyTol + KeyFeather) * (KeyTol + KeyFeather)

KeyIndices == 1..Len(keyRun.targetColors)

KeyPixelIndices == 1..Len(keyRun.original.data)

\* C9 as stated: applying the same list twice leaves the buffer as applying it
\* once does, for every tolerance and feather (feather > 0 included).
C9_Idempotent ==
  Len(keyRun.keyed) = 2 => keyRun.keyed[2] = keyRun.keyed[1]

\* C9 amended: after the second application of the same list, every pixel that
\* is within the tolerance of some colour or in the feather band of none is as
\* after the first; so the buffer is the same whenever feather = 0.
C9_IdempotentOutsideFeather ==
  Len(keyRun.keyed) = 2 =>
    /\ \A i \in KeyPixelIndices :
         LET p == keyRun.original.data[i]
         IN (\/ \E k \in KeyIndices : WithinTolerance(p, k)
             \/ \A k \in KeyIndices : ~InFeatherBand(p, k))
              => keyRun.keyed[2].data[i] = keyRun.keyed[1].data[i]
    /\ KeyFeather = 0 => keyRun.keyed[2] = keyRun.keyed[1]

\* two applications with feather = 0 that keyed a visible pixel out
C9_Witness ==
  /\ Len(keyRun.keyed) = 2
  /\ KeyFeather = 0
  /\ \E i \in KeyPixelIndices :
       keyRun.original.data[i].a > 0 /\ keyRun.keyed[1].data[i].a = 0

\* C10 as stated: any permutation of the colours yields the same final alpha
\* for every pixel, those in the feather band of two colours included.
C10_OrderIrrelevant ==
  keyRun.reordered # NULL =>
    \A i \in KeyPixelIndices :
      keyRun.reordered.imageData.data[i].a = keyRun.keyed[1].data[i].a

\* C10 amended: any permutation of the colours yields the same final alpha for
\* every pixel that is within the tolerance of some colour or in the feather
\* band of at most one colour of the list; so for every pixel when feather = 0.
C10_OrderIrrelevantOutsideSharedFeather ==
  keyRun.reordered # NULL =>
    /\ \A i \in KeyPixelIndices :
         LET p == keyRun.original.data[i]
         IN (\/ \E k \in KeyIndices : WithinTolerance(p, k)
             \/ Cardinality({k \in KeyIndices : InFeatherBand(p, k)}) <= 1)
              => keyRun.reordered.imageData.data[i].a = keyRun.keyed[1].data[i].a
    /\ KeyFeather = 0 =>
         \A i \in KeyPixelIndices :
           keyRun.reordered.imageData.data[i].a = keyRun.keyed[1].data[i].a

\* two different colours applied in the other order, one of them keying a
\* visible pixel out
C10_Witness ==
  /\ keyRun.reordered # NULL
  /\ keyRun.reordered.targetColors # keyRun.targetColors
  /\ \E i \in KeyPixelIndices :
       /\ keyRun.original.data[i].a > 0
       /\ keyRun.keyed[1].data[i].a = 0
       /\ ~WithinTolerance(keyRun.original.data[i], 1)

\* the buffer after the colours k, k + 1, ... of the list, one call of
\* applyColorKeyToImageData for each colour, on the buffer the one before left
RECURSIVE KeyedOneByOne(_, _)
KeyedOneByOne(buffer, k) ==
  IF k > Len(keyRun.targetColors) THEN buffer
  ELSE KeyedOneByOne(
         applyColorKeyToImageData(buffer, keyRun.targetColors[k],
                                  keyRun.tolerance, keyRun.feather),
         k + 1)

\* C13: applyColorKeysToImageData leaves the buffer that one call per colour,
\* in list order, each on the result of the one before, leaves; a pixel that
\* some colour of the list keys out (or that was transparent) has alpha 0 at
\* the end, however far it is from the colours after that one; with an empty
\* list the buffer is unchanged.  Stated on the state the call leaves.
C13_KeysAreCumulative ==
  (Len(keyRun.keyed) = 1 /\ keyRun.reordered = NULL) =>
    LET final == keyRun.keyed[1]
    IN /\ final = KeyedOneByOne(keyRun.original, 1)
       /\ \A i \in KeyPixelIndices :
            ( \/ keyRun.original.data[i].a = 0
              \/ \E k \in KeyIndices : WithinTolerance(keyRun.original.data[i], k) )
              => final.data[i].a = 0
       /\ Len(keyRun.targetColors) = 0 => final = keyRun.original

\* C13 witness: a visible pixel within the tolerance of the first colour and
\* beyond tolerance and feather of the second one ends with alpha 0
C13_Witness ==
  /\ Len(keyRun.keyed) = 1
  /\ keyRun.reordered = NULL
  /\ Len(keyRun.targetColors) = 2
  /\ \E i \in KeyPixelIndices :
       LET p == keyRun.original.data[i]
       IN /\ p.a > 0
          /\ WithinTolerance(p, 1)
          /\ ~WithinTolerance(p, 2)
          /\ ~InFeatherBand(p, 2)
          /\ keyRun.keyed[1].data[i].a = 0

(***************************************************************************)
(* SpecColorKey: applyColorKeyToImageData, called again and again on one   *)
(* buffer                                                                  *)
(***************************************************************************)
MaxCalls == 2

\* colours at distance 0, 1, 10, sqrt(125), 15, 17, 20, 20 and 21 of black
CkColours ==
  { <<0, 0, 0>>, <<1, 0, 0>>, <<10, 0, 0>>, <<10, 5, 0>>, <<9, 12, 0>>,
    <<8, 15, 0>>, <<12, 16, 0>>, <<20, 0, 0>>, <<21, 0, 0>> }

CkAlphas == {0, 1, 45, 51, 255}

CkPixels == {Pixel(c[1], c[2], c[3], a) : c \in CkColours, a \in CkAlphas}

CkBuffers ==
  {[width |-> 1, height |-> 1, data |-> <<p>>] : p \in CkPixels}
  \cup {[width |-> 2, height |-> 1,
         data |-> <<Pixel(0, 0, 0, 255), Pixel(9, 12, 0, 51)>>]}

CkTargets == {[r |-> 0, g |-> 0, b |-> 0], [r |-> 10, g |-> 0, b |-> 0]}

\* <<tolerance, feather>>
CkParams == {<<0, 0>>, <<10, 0>>, <<10, 10>>, <<0, 6>>, <<-1, -1>>}

InitColorKey ==
  /\ \E b \in CkBuffers : ckRun = [imageData |-> b, calls |-> <<>>]
  /\ exRun = Idle
  /\ isRun = Idle
  /\ keyRun = Idle
  /\ hexRun = Idle
  /\ gridRun = Idle
  /\ InitApp

\* applyColorKeyToImageData on the buffer, which it mutates in place; each call
\* is recorded with the buffer before and after it
ApplyColorKey ==
  /\ Len(ckRun.calls) < MaxCalls
  /\ \E targetColor \in CkTargets, tf \in CkParams :
       LET after == applyColorKeyToImageData(ckRun.imageData, targetColor,
                                             tf[1], tf[2])
       IN ckRun' = [imageData |-> after,
                    calls |-> Append(ckRun.calls,
                      [targetColor |-> targetColor, tolerance |-> tf[1],
                       feather |-> tf[2], before |-> ckRun.imageData,
                       after |-> after])]
  /\ UNCHANGED <<exRun, isRun, keyRun, hexRun, gridRun, appVars>>

NextColorKey == ApplyColorKey

SpecColorKey == InitColorKey /\ [][NextColorKey]_vars

(***************************************************************************)
(* Claims on applyColorKeyToImageData (SpecColorKey)                       *)
(***************************************************************************)
CkCalls == {ckRun.calls[n] : n \in DOMAIN ckRun.calls}

\* the squared RGB distance of pixel i of the call's buffer to its target
CkDistSq(call, i) ==
  LET p == call.before.data[i]
      t == call.targetColor
  IN (p.r - t.r) * (p.r - t.r) + (p.g - t.g) * (p.g - t.g) + (p.b - t.b) * (p.b - t.b)

\* C11: with feather = 0 and tolerance >= 0, a call sets alpha to 0 for the
\* pixels whose squared RGB distance to the target is <= tolerance^2 and
\* leaves every other pixel as it was; alpha plays no part in the distance.
C11_HardKeyWithinTolerance ==
  \A call \in CkCalls :
    (call.feather = 0 /\ call.tolerance >= 0) =>
      \A i \in DOMAIN call.before.data :
        call.after.data[i] =
          IF CkDistSq(call, i) <= call.tolerance * call.tolerance
            THEN [call.before.data[i] EXCEPT !.a = 0]
            ELSE call.before.data[i]

\* C11 witness: tolerance 0 and feather 0 left a visible pixel at distance 10
\* as it was, then tolerance 10 and feather 0 keyed it out
C11_Witness ==
  /\ Len(ckRun.calls) = 2
  /\ LET c1 == ckRun.calls[1]
         c2 == ckRun.calls[2]
     IN /\ c1.tolerance = 0 /\ c1.feather = 0
        /\ CkDistSq(c1, 1) = 100 /\ c1.before.data[1].a > 0
        /\ c1.after = c1.before
        /\ c2.tolerance = 10 /\ c2.feather = 0
        /\ CkDistSq(c2, 1) = 100
        /\ c2.after.data[1].a = 0

\* the call's pixel i lies in the feather band of the target
CkInBand(call, i) ==
  /\ call.tolerance * call.tolerance < CkDistSq(call, i)
  /\ CkDistSq(call, i) <= (call.tolerance + call.feather) * (call.tolerance + call.feather)

\* C12 as stated: with feather > 0 (and tolerance >= 0) a pixel at distance d,
\* tolerance < d <= tolerance + feather, gets alpha = round(alpha * (d -
\* tolerance) / feather), the exactly rounded value, and a pixel beyond the
\* band is unchanged; with tolerance 10 and feather 10 a pixel at distance 10
\* gets alpha 0, at distance 15 round(alpha / 2), at distance >= 20 its alpha.
C12_FeatherRampExact ==
  \A call \in CkCalls :
    (call.feather > 0 /\ call.tolerance >= 0) =>
      \A i \in DOMAIN call.before.data :
        LET alpha == call.before.data[i].a
            d2 == CkDistSq(call, i)
            after == call.after.data[i].a
        IN /\ CkInBand(call, i) =>
                after = ExactRamp(alpha, d2, call.tolerance, call.feather)
           /\ d2 > (call.tolerance + call.feather) * (call.tolerance + call.feather) =>
                after = alpha
           /\ (call.tolerance = 10 /\ call.feather = 10) =>
                /\ d2 = 100 => after = 0
                /\ d2 = 225 => after = (alpha + 1) \div 2
                /\ d2 >= 400 => after = alpha

\* the tolerance and feather a call works with (negative values count as 0)
CkTol(call) == IF call.tolerance > 0 THEN call.tolerance ELSE 0

CkFeather(call) == IF call.feather > 0 THEN call.feather ELSE 0

\* C14: whatever the sequence of calls, each call leaves the size of the
\* buffer and the R, G and B of every pixel as they were, never raises an
\* alpha, keeps every alpha in 0..255, and leaves the alpha of a pixel that is
\* outside the tolerance and outside the feather band as it was.
C14_OnlyAlphaAndNeverUp ==
  \A call \in CkCalls :
    /\ Len(call.after.data) = Len(call.before.data)
    /\ call.after.width = call.before.width
    /\ call.after.height = call.before.height
    /\ \A i \in DOMAIN call.before.data :
         LET p == call.before.data[i]
             q == call.after.data[i]
             d2 == CkDistSq(call, i)
             reach == CkTol(call) + CkFeather(call)
         IN /\ q.r = p.r /\ q.g = p.g /\ q.b = p.b
            /\ q.a <= p.a
            /\ q.a \in 0..255
            /\ d2 > reach * reach => q.a = p.a

\* C14 witness: a feather lowered the alpha of a coloured pixel in part and
\* the next call keyed the pixel out, its colour still the one it had
C14_Witness ==
  /\ Len(ckRun.calls) = 2
  /\ LET c1 == ckRun.calls[1]
         c2 == ckRun.calls[2]
     IN /\ c1.before.data[1].r > 0
        /\ 0 < c1.after.data[1].a
        /\ c1.after.data[1].a < c1.before.data[1].a
        /\ c2.before = c1.after
        /\ c2.after.data[1].a = 0
        /\ c2.after.data[1].r = c1.before.data[1].r

(***************************************************************************)
(* SpecHex: hexToRgb on well-formed and malformed strings                  *)
(***************************************************************************)
MaxHexLen == 7

\* a lower-case digit, an upper-case digit, a letter that is no hex digit and
\* the prefix
HexAlphabet == {"a", "F", "g", "#"}

\* strings with every decimal digit, both cases, the 3-digit form, white
\* space and the 0x prefix
HexSamples ==
  { <<"#", "0", "1", "2", "3", "4", "5">>,
    <<"6", "7", "8", "9", "a", "B">>,
    <<"#", "c", "D", "e", "E", "f", "F">>,
    <<"#", "F", "F", "0", "0", "F", "F">>,
    <<"#", "f", "0", "f">>,
    <<"f", "0", "f">>,
    <<" ", "f", "f", "0", "0", "f", "f">>,
    <<"f", "f", "0", "0", "f", "f", " ">>,
    <<"#", "f", "f", "0", "0", "f", "f", "0">>,
    <<"#", "f", "f", "0", "0", "f", "f", "f", "f">>,
    <<"0", "x", "f", "f", "0", "0", "f", "f">>,
    <<"#", "f", "f", "0", "0", "f", "-">> }

HexInputs ==
  UNION {[1..n -> HexAlphabet] : n \in 0..MaxHexLen} \cup HexSamples

InitHex ==
  /\ \E hex \in HexInputs : hexRun = [hex |-> hex, done |-> FALSE, result |-> NULL]
  /\ exRun = Idle
  /\ isRun = Idle
  /\ keyRun = Idle
  /\ ckRun = Idle
  /\ gridRun = Idle
  /\ InitApp

HexToRgb ==
  /\ ~hexRun.done
  /\ hexRun' = [hexRun EXCEPT !.done = TRUE, !.result = hexToRgb(hexRun.hex)]
  /\ UNCHANGED <<exRun, isRun, keyRun, ckRun, gridRun, appVars>>

NextHex == HexToRgb

SpecHex == InitHex /\ [][NextHex]_vars

(***************************************************************************)
(* Claims on hexToRgb (SpecHex)                                            *)
(***************************************************************************)
\* the value of a hex digit, either case
HexDigitValue ==
  [ch \in {"0", "1", "2", "3", "4", "5", "6", "7", "8", "9"} |->
     CASE ch = "0" -> 0 [] ch = "1" -> 1 [] ch = "2" -> 2 [] ch = "3" -> 3
       [] ch = "4" -> 4 [] ch = "5" -> 5 [] ch = "6" -> 6 [] ch = "7" -> 7
       [] ch = "8" -> 8 [] ch = "9" -> 9]
  @@ [ch \in {"a", "b", "c", "d", "e", "f"} |->
     CASE ch = "a" -> 10 [] ch = "b" -> 11 [] ch = "c" -> 12 [] ch = "d" -> 13
       [] ch = "e" -> 14 [] ch = "f" -> 15]
  @@ [ch \in {"A", "B", "C", "D", "E", "F"} |->
     CASE ch = "A" -> 10 [] ch = "B" -> 11 [] ch = "C" -> 12 [] ch = "D" -> 13
       [] ch = "E" -> 14 [] ch = "F" -> 15]

\* the string is an optional "#" and then exactly six hex digits
WellFormedHex(hex) ==
  \/ /\ Len(hex) = 6
     /\ \A i \in 1..6 : hex[i] \in DOMAIN HexDigitValue
  \/ /\ Len(hex) = 7
     /\ hex[1] = "#"
     /\ \A i \in 2..7 : hex[i] \in DOMAIN HexDigitValue

\* the six digits of a well-formed string
HexBody(hex) == IF Len(hex) = 7 THEN SubSeq(hex, 2, 7) ELSE hex

\* C15: hexToRgb returns a colour, each channel in 0..255 and the value of
\* its two digits, exactly for the strings that are an optional "#" and then
\* exactly six hex digits of either case; for every other string it returns
\* null, never a colour.
C15_ColourIffSixHexDigits ==
  hexRun.done =>
    IF WellFormedHex(hexRun.hex)
      THEN LET d == HexBody(hexRun.hex)
           IN /\ hexRun.result # NULL
              /\ hexRun.result.r \in 0..255
              /\ hexRun.result.g \in 0..255
              /\ hexRun.result.b \in 0..255
              /\ hexRun.result =
                   [r |-> 16 * HexDigitValue[d[1]] + HexDigitValue[d[2]],
                    g |-> 16 * HexDigitValue[d[3]] + HexDigitValue[d[4]],
                    b |-> 16 * HexDigitValue[d[5]] + HexDigitValue[d[6]]]
      ELSE hexRun.result = NULL

\* C15 witness: a string with the prefix and digits of both cases was parsed
C15_Witness ==
  /\ hexRun.done
  /\ hexRun.hex = <<"#", "c", "D", "e", "E", "f", "F">>
  /\ hexRun.result = [r |-> 205, g |-> 238, b |-> 255]

(***************************************************************************)
(* SpecGrid: calculateGridRects on small images and cells                  *)
(***************************************************************************)
MaxGridSide == 5
MaxCell == 3

GridSettings ==
  [width : -1..MaxCell, height : -1..MaxCell, marginX : 0..1, marginY : 0..1,
   spacingX : 0..1, spacingY : 0..1]

\* calculateGridRects(64, 64, {width: 32, height: 32, margins 0, spacings 0})
GridExample == [imgWidth |-> 64, imgHeight |-> 64, grid |-> Grid(32, 32)]

GridCalls ==
  [imgWidth : 0..MaxGridSide, imgHeight : 0..MaxGridSide, grid : GridSettings]
  \cup {GridExample}

InitGrid ==
  /\ \E c \in GridCalls :
       gridRun = [imgWidth |-> c.imgWidth, imgHeight |-> c.imgHeight,
                  grid |-> c.grid, called |-> FALSE, rects |-> <<>>]
  /\ exRun = Idle
  /\ isRun = Idle
  /\ keyRun = Idle
  /\ ckRun = Idle
  /\ hexRun = Idle
  /\ InitApp

CalculateGridRects ==
  /\ ~gridRun.called
  /\ gridRun' = [gridRun EXCEPT
       !.called = TRUE,
       !.rects = calculateGridRects(gridRun.imgWidth, gridRun.imgHeight, gridRun.grid)]
  /\ UNCHANGED <<exRun, isRun, keyRun, ckRun, hexRun, appVars>>

NextGrid == CalculateGridRects

SpecGrid == InitGrid /\ [][NextGrid]_vars

(***************************************************************************)
(* Claims on calculateGridRects (SpecGrid)                                 *)
(***************************************************************************)
\* how many cells of the given size fit, from the margin, with the spacing
\* between them, in the given extent
CellsThatFit(extent, margin, size, spacing) ==
  Cardinality({i \in 0..extent : margin + i * (size + spacing) + size <= extent})

\* C17: calculateGridRects returns the empty list when width <= 0 or
\* height <= 0; otherwise (margins and spacings >= 0) exactly the rects of
\* size width x height at x = marginX + i*(width+spacingX),
\* y = marginY + j*(height+spacingY), i, j >= 0, with x + width <= imgW and
\* y + height <= imgH, row by row, x ascending in a row, with ids grid-0,
\* grid-1, ... in that order; for 64x64 and 32x32 cells that is 4 rects at
\* (0,0), (32,0), (0,32), (32,32).
C17_GridIsRowMajorCellsThatFit ==
  gridRun.called =>
    LET g == gridRun.grid
        cols == CellsThatFit(gridRun.imgWidth, g.marginX, g.width, g.spacingX)
        rows == CellsThatFit(gridRun.imgHeight, g.marginY, g.height, g.spacingY)
    IN /\ (g.width <= 0 \/ g.height <= 0) => gridRun.rects = <<>>
       /\ (g.width > 0 /\ g.height > 0) =>
            /\ Len(gridRun.rects) = cols * rows
            /\ \A k \in 1..(cols * rows) :
                 gridRun.rects[k] =
                   [id |-> [prefix |-> "grid", n |-> k - 1],
                    x |-> g.marginX + ((k - 1) % cols) * (g.width + g.spacingX),
                    y |-> g.marginY + ((k - 1) \div cols) * (g.height + g.spacingY),
                    w |-> g.width, h |-> g.height]
       /\ (gridRun.imgWidth = 64 /\ gridRun.imgHeight = 64 /\ g = Grid(32, 32)) =>
            gridRun.rects =
              << [id |-> [prefix |-> "grid", n |-> 0], x |-> 0, y |-> 0, w |-> 32, h |-> 32],
                 [id |-> [prefix |-> "grid", n |-> 1], x |-> 32, y |-> 0, w |-> 32, h |-> 32],
                 [id |-> [prefix |-> "grid", n |-> 2], x |-> 0, y |-> 32, w |-> 32, h |-> 32],
                 [id |-> [prefix |-> "grid", n |-> 3], x |-> 32, y |-> 32, w |-> 32, h |-> 32] >>

\* C17 witness: two rows of two cells with a margin and a spacing, the last
\* cell of a row ending exactly at the right edge of the image
C17_Witness ==
  /\ gridRun.called
  /\ gridRun.grid.marginX > 0 /\ gridRun.grid.spacingX > 0
  /\ gridRun.grid.spacingY > 0
  /\ Len(gridRun.rects) = 4
  /\ gridRun.rects[2].y = gridRun.rects[1].y
  /\ gridRun.rects[2].x + gridRun.rects[2].w = gridRun.imgWidth
  /\ gridRun.rects[3].x = gridRun.rects[1].x
  /\ gridRun.rects[3].y > gridRun.rects[1].y

(***************************************************************************)
(* SpecTight: islands are detected on the keyed image, then each island    *)
(* rect is extracted from the image under the same processing settings     *)
(***************************************************************************)
InitTight ==
  /\ isRun \in [imageData : ExImages, processing : ExProcessing,
                minWidth : 1..MaxMinSize, minHeight : 1..MaxMinSize,
                detected : {FALSE}, rects : {<<>>}, frames : {<<>>}]
  /\ exRun = Idle
  /\ keyRun = Idle
  /\ NoOtherCalls
  /\ InitApp

\* detectIslands(imageData, minWidth, minHeight) on the keyed buffer
DetectOnKeyed ==
  /\ ~isRun.detected
  /\ isRun' = [isRun EXCEPT !.detected = TRUE, !.rects =
       detectIslands(KeyedImage(isRun.imageData, isRun.processing),
                     isRun.minWidth, isRun.minHeight)]
  /\ UNCHANGED <<exRun, keyRun, ckRun, hexRun, gridRun, appVars>>

\* extractFrame(image, rect, settings) for the next island rect
ExtractIsland ==
  /\ isRun.detected
  /\ Len(isRun.frames) < Len(isRun.rects)
  /\ isRun' = [isRun EXCEPT !.frames =
       Append(@, extractFrame(isRun.imageData, isRun.rects[Len(isRun.frames) + 1],
                              [processing |-> isRun.processing]))]
  /\ UNCHANGED <<exRun, keyRun, ckRun, hexRun, gridRun, appVars>>

NextTight == DetectOnKeyed \/ ExtractIsland

SpecTight == InitTight /\ [][NextTight]_vars

\* C28: every rect that detectIslands returns on the keyed image has pixels
\* and is tight: extractFrame on it under the same processing settings
\* returns a frame, and with autoTrim the trim removes nothing (trimOffset
\* (0,0), trimmedSize = originalSize = the rect's size).
C28_IslandRectsAreTight ==
  \A i \in DOMAIN isRun.frames :
    LET frame == isRun.frames[i]
        rect == isRun.rects[i]
    IN /\ frame # NULL
       /\ frame # IndexSizeError
       /\ rect.w > 0 /\ rect.h > 0
       /\ frame.id = rect.id
       /\ isRun.processing.autoTrim =>
            /\ frame.trimOffset = [x |-> 0, y |-> 0]
            /\ frame.trimmedSize = [w |-> rect.w, h |-> rect.h]
            /\ frame.originalSize = [w |-> rect.w, h |-> rect.h]

\* with autoTrim and a working colour key, an island next to a pixel that the
\* key removes has been extracted
C28_Witness ==
  /\ isRun.processing.autoTrim
  /\ isRun.processing.colorKeyEnabled
  /\ Len(isRun.frames) > 0
  /\ Len(isRun.frames) = Len(isRun.rects)
  /\ \E i \in DOMAIN isRun.imageData.data :
       /\ isRun.imageData.data[i].a > 0
       /\ KeyedImage(isRun.imageData, isRun.processing).data[i].a = 0

(***************************************************************************)
(* SpecGridLoop: the two while loops of calculateGridRects, step by step   *)
(***************************************************************************)
MaxLoopSide == 3

MaxLoopCell == 2

\* the most negative spacing typed into the Space X / Space Y inputs
MaxNegSpacing == 2

\* the rects pushed are counted modulo MaxLoopRects + 1; a call that returns
\* pushes at most MaxLoopSide * MaxLoopSide rects
MaxLoopRects == 9

\* A cursor that falls below CursorFloor is kept there: it moves by a fixed
\* negative stride, so it can only fall further, and a loop condition that
\* holds at the floor holds for every smaller value.
CursorFloor == 0 - MaxNegSpacing

LoopSettings ==
  [width : 0..MaxLoopCell, height : 0..MaxLoopCell, marginX : 0..1, marginY : 0..1,
   spacingX : (0 - MaxNegSpacing)..1, spacingY : (0 - MaxNegSpacing)..1]

InitGridLoop ==
  /\ \E imgWidth \in 1..MaxLoopSide, imgHeight \in 1..MaxLoopSide, grid \in LoopSettings :
       gridRun = [imgWidth |-> imgWidth, imgHeight |-> imgHeight, grid |-> grid,
                  pc |-> "call", x |-> 0, y |-> 0, idCounter |-> 0]
  /\ exRun = Idle
  /\ isRun = Idle
  /\ keyRun = Idle
  /\ ckRun = Idle
  /\ hexRun = Idle
  /\ InitApp

Floored(cursor) == IF cursor < CursorFloor THEN CursorFloor ELSE cursor

GridLoopIdle == UNCHANGED <<exRun, isRun, keyRun, ckRun, hexRun, appVars>>

\* if (width <= 0 || height <= 0) return []; let x = marginX; let y = marginY
GridLoopEnter ==
  /\ gridRun.pc = "call"
  /\ gridRun' =
       IF gridRun.grid.width <= 0 \/ gridRun.grid.height <= 0
         THEN [gridRun EXCEPT !.pc = "returned"]
         ELSE [gridRun EXCEPT !.pc = "rows", !.x = gridRun.grid.marginX,
                              !.y = gridRun.grid.marginY]
  /\ GridLoopIdle

\* while (y + height <= imgHeight): into the row, or return rects
GridLoopRowTest ==
  /\ gridRun.pc = "rows"
  /\ gridRun' = IF gridRun.y + gridRun.grid.height <= gridRun.imgHeight
                  THEN [gridRun EXCEPT !.pc = "cells"]
                  ELSE [gridRun EXCEPT !.pc = "returned"]
  /\ GridLoopIdle

\* while (x + width <= imgWidth) { rects.push(...); x += width + spacingX }
GridLoopPush ==
  /\ gridRun.pc = "cells"
  /\ gridRun.x + gridRun.grid.width <= gridRun.imgWidth
  /\ gridRun' = [gridRun EXCEPT
       !.x = Floored(gridRun.x + gridRun.grid.width + gridRun.grid.spacingX),
       !.idCounter = (gridRun.idCounter + 1) % (MaxLoopRects + 1)]
  /\ GridLoopIdle

\* the row is over: x = marginX; y += height + spacingY
GridLoopRowEnd ==
  /\ gridRun.pc = "cells"
  /\ ~(gridRun.x + gridRun.grid.width <= gridRun.imgWidth)
  /\ gridRun' = [gridRun EXCEPT
       !.pc = "rows",
       !.x = gridRun.grid.marginX,
       !.y = Floored(gridRun.y + gridRun.grid.height + gridRun.grid.spacingY)]
  /\ GridLoopIdle

NextGridLoop ==
  \/ GridLoopEnter
  \/ GridLoopRowTest
  \/ GridLoopPush
  \/ GridLoopRowEnd

\* the call runs on: JavaScript runs a function to its end
SpecGridLoop == InitGridLoop /\ [][NextGridLoop]_vars /\ WF_vars(NextGridLoop)

\* C27: for every image size and every grid setting with width > 0 and
\* height > 0, whatever the margins and spacings (zero or negative spacing
\* included), calculateGridRects returns.
C27_GridLoopsTerminate ==
  (gridRun.grid.width > 0 /\ gridRun.grid.height > 0) => <>(gridRun.pc = "returned")

(***************************************************************************)
(* App: the handlers of the component and its generate effect              *)
(***************************************************************************)
KeyColour == Pixel(255, 0, 255, 255)

\* O . K
\* O . K      (O opaque, K opaque in the key colour, . transparent)
Sheet ==
  [width |-> 3, height |-> 2,
   data |-> << Opaque, TransparentPixel, KeyColour,
               Opaque, TransparentPixel, KeyColour >>]

\* K O
\* . .
Strip ==
  [width |-> 2, height |-> 2,
   data |-> << KeyColour, Opaque, TransparentPixel, TransparentPixel >>]

\* the files the user picks
Uploads == {Strip}

ManualRect(n, x, y, w, h) ==
  [id |-> [prefix |-> "manual", n |-> n], x |-> x, y |-> y, w |-> w, h |-> h]

\* what an earlier session can have saved: { imageBlob, settings, manualRects }
SavedProjects ==
  { [image |-> Sheet,
     settings |-> [mode |-> "grid", grid |-> Grid(1, 2),
                   islands |-> [minWidth |-> 5, minHeight |-> 5],
                   processing |-> Processing(FALSE, TRUE, <<Magenta>>, 10, 0)],
     manualRects |-> <<ManualRect(0, 0, 0, 2, 2)>>],
    [image |-> Sheet,
     settings |-> [mode |-> "islands", grid |-> Grid(32, 32),
                   islands |-> [minWidth |-> 1, minHeight |-> 1],
                   processing |-> Processing(FALSE, FALSE, <<Magenta>>, 10, 0)],
     manualRects |-> <<>>],
    [image |-> NULL,
     settings |-> [mode |-> "manual", grid |-> Grid(32, 32),
                   islands |-> [minWidth |-> 5, minHeight |-> 5],
                   processing |-> Processing(TRUE, FALSE, <<Magenta>>, 10, 0)],
     manualRects |-> <<ManualRect(0, 2, 0, 2, 2)>>] }

\* the inputs of the grid and islands panels that are edited, and the numbers
\* typed into them
GridKeys == {"width"}

GridSizes == {2}

IslandKeys == {"minWidth"}

IslandSizes == {2}

\* the rects a drag can leave in currentDrawRect
DrawRects == { [x |-> 1, y |-> 0, w |-> 2, h |-> 2],
               [x |-> 0, y |-> 0, w |-> 1, h |-> 2],
               [x |-> 0, y |-> 0, w |-> 0, h |-> 2] }

\* the sides a resize handle moves: isResizing.includes(side)
HandleSides ==
  [n |-> {"n"}, ne |-> {"n", "e"}, e |-> {"e"}, se |-> {"s", "e"},
   s |-> {"s"}, sw |-> {"s", "w"}, w |-> {"w"}, nw |-> {"n", "w"}]

\* the handle the user drags and how far, in image pixels: <<handle, dx, dy>>
ResizeDrags == { <<"e", -2, 0>>, <<"nw", 3, 1>> }

RemoveAt(seq, i) == [j \in 1..(Len(seq) - 1) |-> IF j < i THEN seq[j] ELSE seq[j + 1]]

InsertAt(seq, i, e) ==
  [j \in 1..(Len(seq) + 1) |->
     IF j < i THEN seq[j] ELSE IF j = i THEN e ELSE seq[j - 1]]

IdsOf(seq) == {seq[i].id : i \in DOMAIN seq}

\* the pure specifications leave the App alone and the App leaves them alone;
\* the number of events a run follows is fixed at its start; the state of the
\* PreviewModal is its own
PureIdle == UNCHANGED <<pureVars, budget, preview>>

History == UNCHANGED <<abandoned, deleted>>

\* the selection on the canvas stays
Selection == UNCHANGED selectedRectId

\* The generate effect runs again because one of its dependencies changed:
\* the cleanup of the previous instance (isActive = false, clearTimeout), then
\* the body with the image of the new render.
RerunGenerate(img) ==
  /\ passes' = {[pass EXCEPT !.active = FALSE] : pass \in passes}
  /\ timer' = (img # NULL)
  /\ isProcessing' = IF img # NULL THEN TRUE ELSE isProcessing
  /\ effectPending' = FALSE

\* loadProject().then(...): the saved settings and manual rects.  The load is
\* started by the mount effect and ends before the user's first event.
ProjectLoaded ==
  /\ project.phase = "loading"
  /\ events = 0
  /\ \E saved \in SavedProjects \cup {NULL} :
       IF saved = NULL
         THEN /\ project' = [phase |-> "done", image |-> NULL]
              /\ UNCHANGED <<image, settings, manualRects, islandRects,
                             hiddenRectIds, isProcessing, timer, passes,
                             effectPending>>
         ELSE /\ project' = IF saved.image = NULL
                              THEN [phase |-> "done", image |-> NULL]
                              ELSE [phase |-> "image", image |-> saved.image]
              /\ settings' = saved.settings
              /\ manualRects' = saved.manualRects
              /\ hiddenRectIds' = {}
              /\ RerunGenerate(image)
              /\ UNCHANGED <<image, islandRects>>
  /\ UNCHANGED <<generatedFrames, events>>
  /\ History
  /\ Selection
  /\ PureIdle

\* img.onload of the saved image
ProjectImageLoaded ==
  /\ project.phase = "image"
  /\ events = 0
  /\ image' = project.image
  /\ project' = [phase |-> "done", image |-> NULL]
  /\ RerunGenerate(project.image)
  /\ UNCHANGED <<settings, manualRects, islandRects, hiddenRectIds,
                 generatedFrames, events>>
  /\ History
  /\ Selection
  /\ PureIdle

\* img.onload of handleUpload
handleUpload ==
  /\ events < budget
  /\ \E img \in Uploads :
       /\ image' = img
       /\ RerunGenerate(img)
  /\ manualRects' = <<>>
  /\ islandRects' = <<>>
  /\ hiddenRectIds' = {}
  /\ events' = events + 1
  /\ UNCHANGED <<settings, generatedFrames, project>>
  /\ History
  /\ Selection
  /\ PureIdle

\* updateSettings(s): s holds the keys named in DOMAIN s; changed is the key
\* whose value is a new object (or a new mode)
updateSettings(s, changed) ==
  /\ islandRects' =
       IF \/ /\ "islands" \in DOMAIN s
             /\ \/ s.islands.minWidth # settings.islands.minWidth
                \/ s.islands.minHeight # settings.islands.minHeight
          \/ /\ "processing" \in DOMAIN s
             /\ settings.mode = "islands"
         THEN <<>> ELSE islandRects
  /\ settings' = [k \in DOMAIN settings |-> IF k \in DOMAIN s THEN s[k] ELSE settings[k]]
  /\ hiddenRectIds' = IF changed \in {"grid", "islands", "mode"} THEN {} ELSE hiddenRectIds
  /\ RerunGenerate(image)
  /\ events' = events + 1
  /\ UNCHANGED <<image, manualRects, generatedFrames, project>>
  /\ History
  /\ Selection
  /\ PureIdle

\* the three mode buttons of the Sidebar
SetMode ==
  /\ events < budget
  /\ \E m \in {"grid", "islands", "manual"} :
       /\ m # settings.mode
       /\ updateSettings([mode |-> m], "mode")

\* the number inputs of the grid panel, rendered in grid mode only
updateGrid ==
  /\ events < budget
  /\ settings.mode = "grid"
  /\ \E key \in GridKeys, val \in GridSizes :
       /\ val # settings.grid[key]
       /\ updateSettings([settings EXCEPT !.grid[key] = val], "grid")

\* the number inputs of the islands panel, rendered in islands mode only
updateIslands ==
  /\ events < budget
  /\ settings.mode = "islands"
  /\ \E key \in IslandKeys, val \in IslandSizes :
       /\ val # settings.islands[key]
       /\ updateSettings([settings EXCEPT !.islands[key] = val], "islands")

\* the two checkboxes of the processing panel
updateProc ==
  /\ events < budget
  /\ \E key \in {"autoTrim", "colorKeyEnabled"} :
       updateSettings([settings EXCEPT !.processing[key] = ~settings.processing[key]],
                      "processing")

\* CanvasWorkspace.handleMouseUp at the end of a drag over empty space; the
\* press that began the drag ran onSelectRect(null)
handleMouseUp ==
  /\ events < budget
  /\ selectedRectId' = NULL
  /\ \E currentDrawRect \in DrawRects :
       IF currentDrawRect.w > 1 /\ currentDrawRect.h > 1
         THEN /\ manualRects' = Append(manualRects,
                   ManualRect(events + 1, currentDrawRect.x, currentDrawRect.y,
                              currentDrawRect.w, currentDrawRect.h))
              /\ RerunGenerate(image)
         ELSE UNCHANGED <<manualRects, passes, timer, isProcessing, effectPending>>
  /\ events' = events + 1
  /\ UNCHANGED <<image, settings, islandRects, hiddenRectIds, generatedFrames, project>>
  /\ History
  /\ PureIdle

\* CanvasWorkspace.getActiveRects: the rects drawn on the canvas
getActiveRects ==
  LET activeRects ==
        IF settings.mode = "grid"
          THEN IF image # NULL
                 THEN calculateGridRects(image.width, image.height, settings.grid)
                 ELSE <<>>
          ELSE IF settings.mode = "islands" THEN islandRects ELSE <<>>
  IN SelectSeq(activeRects \o manualRects, LAMBDA r : r.id \notin hiddenRectIds)

\* the image coordinates of a click
ClickPoints == (0..3) \X (0..2)

\* [...activeRects].reverse().find(r => coords inside r): the top-most rect
\* under the click, NULL over empty space
ClickedRectId(activeRects, coords) ==
  LET hits == {i \in DOMAIN activeRects :
                 /\ coords[1] >= activeRects[i].x
                 /\ coords[1] <= activeRects[i].x + activeRects[i].w
                 /\ coords[2] >= activeRects[i].y
                 /\ coords[2] <= activeRects[i].y + activeRects[i].h}
  IN IF hits = {} THEN NULL
     ELSE activeRects[CHOOSE i \in hits : \A j \in hits : j <= i].id

\* CanvasWorkspace.handleMouseDown with the left button, off the handles: a
\* click on a rect of getActiveRects selects it, a click on empty space
\* clears the selection
handleMouseDown ==
  /\ events < budget
  /\ \E coords \in ClickPoints :
       selectedRectId' = ClickedRectId(getActiveRects, coords)
  /\ events' = events + 1
  /\ UNCHANGED <<image, settings, manualRects, islandRects, hiddenRectIds,
                 generatedFrames, isProcessing, project, timer, passes,
                 effectPending>>
  /\ History
  /\ PureIdle

\* the rect handleMouseMove computes from initialResizeRect
ResizedRect(initialResizeRect, isResizing, dx, dy) ==
  LET sides == HandleSides[isResizing]
      r0 == initialResizeRect
      r1 == IF "e" \in sides THEN [r0 EXCEPT !.w = r0.w + dx] ELSE r0
      r2 == IF "w" \in sides THEN [r1 EXCEPT !.x = r1.x + dx, !.w = r1.w - dx] ELSE r1
      r3 == IF "s" \in sides THEN [r2 EXCEPT !.h = r2.h + dy] ELSE r2
      r4 == IF "n" \in sides THEN [r3 EXCEPT !.y = r3.y + dy, !.h = r3.h - dy] ELSE r3
      r5 == IF r4.w < 0 THEN [r4 EXCEPT !.x = r4.x + r4.w, !.w = Abs(r4.w)] ELSE r4
  IN IF r5.h < 0 THEN [r5 EXCEPT !.y = r5.y + r5.h, !.h = Abs(r5.h)] ELSE r5

\* CanvasWorkspace.updateRect: the update goes to the list the id belongs to
updateRect(newRect) ==
  IF newRect.id.prefix = "manual"
    THEN /\ manualRects' = [i \in DOMAIN manualRects |->
                              IF manualRects[i].id = newRect.id THEN newRect
                              ELSE manualRects[i]]
         /\ RerunGenerate(image)
         /\ UNCHANGED islandRects
    ELSE IF newRect.id.prefix = "island"
      THEN /\ islandRects' = [i \in DOMAIN islandRects |->
                                IF islandRects[i].id = newRect.id THEN newRect
                                ELSE islandRects[i]]
           /\ RerunGenerate(image)
           /\ UNCHANGED manualRects
      ELSE UNCHANGED <<manualRects, islandRects, passes, timer, isProcessing,
                       effectPending>>

\* CanvasWorkspace.handleMouseMove while a handle is dragged (its resize
\* branch).  A click selected the rect (onSelectRect), a manual or an island
\* rect of getActiveRects; handleMouseDown then started the drag on one of its
\* handles and kept a copy of it as initialResizeRect; this is the first move
\* of the drag.
handleMouseMove ==
  /\ events < budget
  /\ \E i \in DOMAIN getActiveRects, drag \in ResizeDrags :
       LET initialResizeRect == getActiveRects[i]
       IN /\ initialResizeRect.id.prefix \in {"manual", "island"}
          /\ updateRect(ResizedRect(initialResizeRect, drag[1], drag[2], drag[3]))
          /\ selectedRectId' = initialResizeRect.id
  /\ events' = events + 1
  /\ UNCHANGED <<image, settings, hiddenRectIds, generatedFrames, project>>
  /\ History
  /\ PureIdle

\* the ids FrameList can ask to delete: one frame, or every frame selected
DeleteChoices ==
  {{id} : id \in IdsOf(generatedFrames)} \cup ({IdsOf(generatedFrames)} \ {{}})

\* mutant: a deletion always clears the selection
SelectionAfterDelete_Cleared(selected, ids) == NULL

\* if (selectedRectId && ids.includes(selectedRectId)) setSelectedRectId(null)
SelectionAfterDelete(selected, ids) ==
  IF selected # NULL /\ selected \in ids THEN NULL ELSE selected

handleDeleteFrames(ids) ==
  /\ events < budget
  /\ LET manualIds == {id \in ids : id.prefix = "manual"}
         autoIds == {id \in ids : id.prefix # "manual"}
     IN /\ generatedFrames' = SelectSeq(generatedFrames, LAMBDA f : f.id \notin ids)
        /\ manualRects' = IF manualIds # {}
                            THEN SelectSeq(manualRects, LAMBDA r : r.id \notin manualIds)
                            ELSE manualRects
        /\ hiddenRectIds' = IF autoIds # {} THEN hiddenRectIds \cup autoIds
                            ELSE hiddenRectIds
        /\ deleted' = {r \in deleted : r.id \notin ids} \cup
                      {generatedFrames[i].rect : i \in {j \in DOMAIN generatedFrames :
                                                          generatedFrames[j].id \in ids}}
        /\ selectedRectId' = SelectionAfterDelete(selectedRectId, ids)
  /\ RerunGenerate(image)
  /\ events' = events + 1
  /\ UNCHANGED <<image, settings, islandRects, project>>
  /\ UNCHANGED abandoned
  /\ PureIdle

\* the delete buttons of FrameList
onDelete == \E ids \in DeleteChoices : handleDeleteFrames(ids)

\* the Delete or Backspace key while a rect is selected
handleKeyDown ==
  /\ selectedRectId # NULL
  /\ handleDeleteFrames({selectedRectId})

\* copy.splice(fromIndex, 1) then copy.splice(toIndex, 0, moved)
handleReorderFrames ==
  /\ events < budget
  /\ \E fromIndex, toIndex \in 0..(Len(generatedFrames) - 1) :
       /\ fromIndex # toIndex
       /\ generatedFrames' =
            InsertAt(RemoveAt(generatedFrames, fromIndex + 1), toIndex + 1,
                     generatedFrames[fromIndex + 1])
  /\ events' = events + 1
  /\ UNCHANGED <<image, settings, manualRects, islandRects, hiddenRectIds,
                 isProcessing, project, timer, passes, effectPending>>
  /\ History
  /\ Selection
  /\ PureIdle

\* the Clear button of FrameList
onClear ==
  /\ events < budget
  /\ manualRects' = <<>>
  /\ generatedFrames' = <<>>
  /\ hiddenRectIds' = {}
  /\ islandRects' = <<>>
  /\ RerunGenerate(image)
  /\ events' = events + 1
  /\ UNCHANGED <<image, settings, project>>
  /\ History
  /\ Selection
  /\ PureIdle

\* mutant: the islands are detected anew in every pass
SourceRects_AlwaysDetects(img, st, cache) ==
  IF st.mode = "grid" THEN calculateGridRects(img.width, img.height, st.grid)
  ELSE IF st.mode = "islands"
    THEN detectIslands(ColorKeyStep(img, st.processing),
                       st.islands.minWidth, st.islands.minHeight)
    ELSE <<>>

\* step 1 of generate: the rects of the active mode (detected is the result of
\* the island detection when the cache is empty)
SourceRects(img, st, cache) ==
  IF st.mode = "grid" THEN calculateGridRects(img.width, img.height, st.grid)
  ELSE IF st.mode = "islands"
    THEN IF Len(cache) = 0
           THEN detectIslands(KeyedImage(img, st.processing),
                              st.islands.minWidth, st.islands.minHeight)
           ELSE cache
    ELSE <<>>

\* mutant: the manual rects come first
MergeRects_ManualFirst(rects, manual) == manual \o rects

\* rects = [...rects, ...manualRects]
MergeRects(rects, manual) == rects \o manual

\* mutant: nothing is filtered out
FilterHidden_KeepsAll(rects, hidden) == rects

\* rects.filter(r => !hiddenRectIds.has(r.id))
FilterHidden(rects, hidden) == SelectSeq(rects, LAMBDA r : r.id \notin hidden)

\* mutant: the result is committed whether or not the effect was cleaned up
CommitAllowed_Always(pass) == TRUE

\* if (isActive) { ... setGeneratedFrames(newFrames); setIsProcessing(false); }
CommitAllowed(pass) == pass.active

\* The timer fires: generate() runs up to its first await.  With no rect to
\* process it runs to its end.
StartGenerate ==
  /\ timer
  /\ LET detects == settings.mode = "islands" /\ Len(islandRects) = 0
         auto == SourceRects(image, settings, islandRects)
         rects == FilterHidden(MergeRects(auto, manualRects), hiddenRectIds)
         pass == [active |-> TRUE, image |-> image, settings |-> settings,
                  cache |-> islandRects,
                  manualRects |-> manualRects, hiddenRectIds |-> hiddenRectIds,
                  rects |-> rects, idx |-> 0, newFrames |-> <<>>]
     IN /\ image' = IF detects
                     THEN SourceAfter(image,
                            [x |-> 0, y |-> 0, w |-> image.width, h |-> image.height],
                            KeyedImage(image, settings.processing))
                     ELSE image
        /\ islandRects' = IF detects /\ pass.active THEN auto ELSE islandRects
        /\ effectPending' = (detects /\ pass.active)
        /\ IF Len(rects) = 0
             THEN /\ generatedFrames' = <<>>
                  /\ isProcessing' = FALSE
                  /\ UNCHANGED passes
             ELSE /\ passes' = passes \cup {pass}
                  /\ UNCHANGED <<generatedFrames, isProcessing>>
  /\ timer' = FALSE
  /\ UNCHANGED <<settings, manualRects, hiddenRectIds, project, events,
                 abandoned, deleted>>
  /\ Selection
  /\ PureIdle

\* The re-render that follows setIslandRects(detected): islandRects is a new
\* array, so the generate effect runs again.
RunEffects ==
  /\ effectPending
  /\ RerunGenerate(image)
  /\ UNCHANGED <<image, settings, manualRects, islandRects, hiddenRectIds,
                 generatedFrames, project, events>>
  /\ History
  /\ Selection
  /\ PureIdle

\* One await extractFrame(image, rect, settings) of a running generate()
\* resolves; after the last one the loop ends and generate() returns.
ExtractNext ==
  \E pass \in passes :
    LET rect == pass.rects[pass.idx + 1]
        frame == extractFrame(pass.image, rect, pass.settings)
        newFrames == IF frame # NULL THEN Append(pass.newFrames, frame)
                     ELSE pass.newFrames
        others == passes \ {pass}
    IN /\ image' = IF frame # IndexSizeError /\ pass.image = image
                     THEN SourceAfter(image, rect,
                            ColorKeyStep(SliceImage(image, rect), pass.settings.processing))
                     ELSE image
       /\ IF frame = IndexSizeError
            THEN \* the promise rejects: generate() ends without a result
                 /\ passes' = others
                 /\ UNCHANGED <<generatedFrames, isProcessing, abandoned>>
            ELSE IF pass.idx + 1 < Len(pass.rects)
              THEN /\ passes' = others \cup
                        {[pass EXCEPT !.idx = pass.idx + 1, !.newFrames = newFrames]}
                   /\ UNCHANGED <<generatedFrames, isProcessing, abandoned>>
              ELSE /\ passes' = others
                   /\ IF CommitAllowed(pass)
                        THEN /\ generatedFrames' = newFrames
                             /\ isProcessing' = FALSE
                        ELSE UNCHANGED <<generatedFrames, isProcessing>>
                   /\ abandoned' = IF pass.active THEN abandoned
                                   ELSE [frames |-> newFrames]
       /\ UNCHANGED <<settings, manualRects, islandRects, hiddenRectIds,
                      project, timer, effectPending, events, deleted>>
       /\ Selection
       /\ PureIdle

Init ==
  /\ exRun = Idle
  /\ isRun = Idle
  /\ keyRun = Idle
  /\ NoOtherCalls
  /\ InitApp

Next ==
  \/ ProjectLoaded
  \/ ProjectImageLoaded
  \/ handleUpload
  \/ SetMode
  \/ updateGrid
  \/ updateIslands
  \/ updateProc
  \/ handleMouseDown
  \/ handleMouseUp
  \/ handleMouseMove
  \/ onDelete
  \/ handleReorderFrames
  \/ onClear
  \/ StartGenerate
  \/ RunEffects
  \/ ExtractNext

Spec == Init /\ [][Next]_vars

\* The timers, promises and image loads of the browser are served: the 500 ms
\* timer fires (the one step that turns `timer` off while an image is loaded
\* is StartGenerate), a pending re-render runs its effects, the saved project
\* and its image load, and an awaited extractFrame resolves.  The last one is
\* weak fairness of ExtractNext written out, ExtractNext being enabled exactly
\* when a generate() call is running.  The user is under no obligation.
Fairness ==
  /\ WF_timer(timer /\ timer' = FALSE)
  /\ WF_vars(RunEffects)
  /\ WF_vars(ProjectLoaded)
  /\ WF_vars(ProjectImageLoaded)
  /\ ([]<>(passes = {}) \/ []<><<ExtractNext>>_vars)

SpecLive == Spec /\ Fairness

(***************************************************************************)
(* SpecSession: a longer run of the App over the handlers that decide      *)
(* which island rects and hidden ids a pass sees                           *)
(***************************************************************************)
MaxSession == 3

InitSession ==
  /\ exRun = Idle
  /\ isRun = Idle
  /\ keyRun = Idle
  /\ NoOtherCalls
  /\ InitFollowing(MaxSession)

\* no generation is pending or running: the user has waited for the frames
AtRest == ~timer /\ passes = {} /\ ~effectPending /\ project.phase = "done"

\* The user changes the settings or the image, or deletes a frame, once the
\* frames of the previous change are settled.
NextSession ==
  \/ ProjectLoaded
  \/ ProjectImageLoaded
  \/ AtRest /\ handleUpload
  \/ AtRest /\ SetMode
  \/ AtRest /\ updateProc
  \/ AtRest /\ onDelete
  \/ StartGenerate
  \/ RunEffects
  \/ ExtractNext

SpecSession == InitSession /\ [][NextSession]_vars

(***************************************************************************)
(* SpecSelect: clicks on the canvas and deletions, at any time             *)
(***************************************************************************)
MaxSelect == 2

InitSelect ==
  /\ exRun = Idle
  /\ isRun = Idle
  /\ keyRun = Idle
  /\ NoOtherCalls
  /\ InitFollowing(MaxSelect)

NextSelect ==
  \/ ProjectLoaded
  \/ ProjectImageLoaded
  \/ handleMouseDown
  \/ onDelete
  \/ handleKeyDown
  \/ StartGenerate
  \/ RunEffects
  \/ ExtractNext

SpecSelect == InitSelect /\ [][NextSelect]_vars

(***************************************************************************)
(* SpecPreview: the PreviewModal over the frames of the App                *)
(***************************************************************************)
PreviewIdle ==
  UNCHANGED <<pureVars, image, settings, manualRects, islandRects, hiddenRectIds,
              generatedFrames, isProcessing, selectedRectId, project, timer,
              passes, effectPending, events, budget, abandoned, deleted>>

\* FrameList's preview button: setShowPreview(true) mounts the modal, with
\* currentFrame 0 and isPlaying true
onTogglePreview ==
  /\ ~preview.open
  /\ preview' = [open |-> TRUE, currentFrame |-> 0, isPlaying |-> TRUE]
  /\ PreviewIdle

\* the close button or Escape: setShowPreview(false) unmounts the modal
onClose ==
  /\ preview.open
  /\ preview' = [preview EXCEPT !.open = FALSE]
  /\ PreviewIdle

\* the Pause / Play button: setIsPlaying(!isPlaying)
setIsPlaying ==
  /\ preview.open
  /\ Len(generatedFrames) > 0
  /\ preview' = [preview EXCEPT !.isPlaying = ~preview.isPlaying]
  /\ PreviewIdle

\* The interval fires: setCurrentFrame(c => (c + 1) % frames.length).  The
\* effect sets the interval only if isPlaying and frames.length > 0, and sets
\* it anew, with the new list, when frames changes.
setCurrentFrame ==
  /\ preview.open
  /\ preview.isPlaying
  /\ Len(generatedFrames) > 0
  /\ preview' = [preview EXCEPT
       !.currentFrame = (preview.currentFrame + 1) % Len(generatedFrames)]
  /\ PreviewIdle

\* The modal lies over the whole page (fixed inset-0): while it is open the
\* canvas and the panels get no click, the window's Delete key handler stays.
NextPreview ==
  \/ ProjectLoaded
  \/ ProjectImageLoaded
  \/ ~preview.open /\ updateProc
  \/ ~preview.open /\ handleMouseDown
  \/ handleKeyDown
  \/ onTogglePreview
  \/ onClose
  \/ setIsPlaying
  \/ setCurrentFrame
  \/ StartGenerate
  \/ RunEffects
  \/ ExtractNext

SpecPreview == InitSelect /\ [][NextPreview]_vars

(***************************************************************************)
(* Claims on the generate effect (Spec)                                    *)
(***************************************************************************)
\* this step is a step of the running generate() call `pass`: only such a
\* step changes the running calls and leaves the timer, the pending re-render
\* and the event count alone, and it takes the call out of its old position
StepOf(pass) ==
  /\ passes' # passes
  /\ UNCHANGED <<events, effectPending, timer, project>>
  /\ pass \in passes
  /\ pass \notin passes'

\* this step is the last step of `pass`: its for loop ends
LastStepOf(pass) ==
  /\ StepOf(pass)
  /\ pass.idx + 1 = Len(pass.rects)
  /\ extractFrame(pass.image, pass.rects[pass.idx + 1], pass.settings) # IndexSizeError

\* the frames of all the rects handed to `pass`, whatever it has done so far
CompleteOutput(pass) ==
  LET results == [i \in DOMAIN pass.rects |->
                    extractFrame(pass.image, pass.rects[i], pass.settings)]
  IN SelectSeq(results, IsFrame)

\* new is old with frames removed or moved
IsEdit(new, old) ==
  /\ \A i \in DOMAIN new : \E j \in DOMAIN old : old[j] = new[i]
  /\ \A i, j \in DOMAIN new : i # j => new[i] # new[j]

\* C5: a generate() call whose effect was cleaned up changes none of
\* generatedFrames, islandRects and isProcessing in any of its later steps; and
\* whenever generatedFrames changes, the new list is either the complete output
\* of one call that is still active at its last step, or the old list with
\* frames deleted or moved (the empty list after Clear or an empty pass).
C5_SupersededPassWritesNothing ==
  [][ /\ \A pass \in passes :
           (~pass.active /\ StepOf(pass)) =>
             UNCHANGED <<generatedFrames, islandRects, isProcessing>>
      /\ generatedFrames' # generatedFrames =>
           \/ \E pass \in passes :
                /\ pass.active
                /\ LastStepOf(pass)
                /\ generatedFrames' = CompleteOutput(pass)
           \/ IsEdit(generatedFrames', generatedFrames) ]_vars

\* C5 witness: a superseded call has run to its end with frames built, and the
\* shared list holds the different output that a later call committed
C5_Witness ==
  /\ abandoned # NULL
  /\ Len(abandoned.frames) > 0
  /\ passes = {}
  /\ ~isProcessing
  /\ Len(generatedFrames) > 0
  /\ \E i \in DOMAIN abandoned.frames :
       \A j \in DOMAIN generatedFrames : generatedFrames[j] # abandoned.frames[i]

\* the list a pass over these inputs has to commit: the automatic rects of the
\* mode, then the manual rects, without the hidden ids, without the rects that
\* resolve to no frame, each turned into its frame
ExpectedFrames(img, st, cache, manual, hidden) ==
  LET auto == IF st.mode = "grid"
                THEN calculateGridRects(img.width, img.height, st.grid)
              ELSE IF st.mode = "islands"
                THEN IF cache = <<>>
                       THEN detectIslands(ColorKeyStep(img, st.processing),
                                          st.islands.minWidth, st.islands.minHeight)
                       ELSE cache
              ELSE <<>>
      input == SelectSeq(auto \o manual, LAMBDA r : r.id \notin hidden)
      kept == SelectSeq(input, LAMBDA r : extractFrame(img, r, st) # NULL)
  IN [i \in DOMAIN kept |-> extractFrame(img, kept[i], st)]

\* this step is a pass that finds no rect and commits at once
EmptyPassCommits == timer /\ ~timer' /\ passes' = passes

\* C6: the list a generation pass commits holds the frames of its input
\* rects (automatic rects of the mode, then manual rects, hidden ids removed)
\* in that order, with exactly the rects that resolved to no frame left out.
C6_CommittedInRectOrder ==
  [][ /\ \A pass \in passes :
           (pass.active /\ LastStepOf(pass)) =>
             generatedFrames' = ExpectedFrames(pass.image, pass.settings, pass.cache,
                                               pass.manualRects, pass.hiddenRectIds)
      /\ EmptyPassCommits =>
           /\ generatedFrames' = <<>>
           /\ ExpectedFrames(image, settings, islandRects, manualRects,
                             hiddenRectIds) = <<>> ]_vars

\* C6 witness: a pass has committed a grid frame and then a manual frame, and
\* dropped the empty grid cells that lie between them in the input
C6_Witness ==
  /\ image # NULL
  /\ passes = {}
  /\ ~timer
  /\ ~isProcessing
  /\ settings.mode = "grid"
  /\ Len(generatedFrames) >= 2
  /\ generatedFrames[1].id.prefix = "grid"
  /\ generatedFrames[Len(generatedFrames)].id.prefix = "manual"
  /\ Len(generatedFrames)
       < Len(calculateGridRects(image.width, image.height, settings.grid))
         + Len(manualRects)
  /\ generatedFrames = ExpectedFrames(image, settings, islandRects, manualRects,
                                      hiddenRectIds)

\* C18 as stated: in every reachable state every rect of manualRects and of
\* islandRects has w > 0 and h > 0, a drawn rect of zero size is rejected at
\* mouse-up, and no rect with w <= 0 or h <= 0 is in the list of a generation
\* pass, whose rects go to extractFrame.
C18_StoredRectsHavePositiveSize ==
  /\ \A i \in DOMAIN manualRects : manualRects[i].w > 0 /\ manualRects[i].h > 0
  /\ \A i \in DOMAIN islandRects : islandRects[i].w > 0 /\ islandRects[i].h > 0
  /\ \A pass \in passes : \A i \in DOMAIN pass.rects :
       pass.rects[i].w > 0 /\ pass.rects[i].h > 0

\* the ids of the rects of a list are pairwise distinct
DistinctIds(rects) ==
  \A i, j \in DOMAIN rects : i # j => rects[i].id # rects[j].id

\* C19: a Frame that extractFrame returns for a rect has the id of that rect
\* and carries the rect unchanged; so every frame of a list that a pass
\* commits has the id of a rect of the pass's input list and carries that
\* rect, and no two frames of the list share an id when the ids of the input
\* rects are distinct.
C19_FrameHasIdAndRectOfItsSource ==
  [][ \A pass \in passes :
        StepOf(pass) =>
          /\ \A next \in passes' \ passes :
               \/ next.newFrames = pass.newFrames
               \/ /\ Len(next.newFrames) = Len(pass.newFrames) + 1
                  /\ SubSeq(next.newFrames, 1, Len(pass.newFrames)) = pass.newFrames
                  /\ next.newFrames[Len(next.newFrames)].id
                       = pass.rects[pass.idx + 1].id
                  /\ next.newFrames[Len(next.newFrames)].rect
                       = pass.rects[pass.idx + 1]
          /\ (pass.active /\ LastStepOf(pass)) =>
               /\ \A i \in DOMAIN generatedFrames' :
                    \E j \in DOMAIN pass.rects :
                      /\ generatedFrames'[i].id = pass.rects[j].id
                      /\ generatedFrames'[i].rect = pass.rects[j]
               /\ DistinctIds(pass.rects) => DistinctIds(generatedFrames') ]_vars

\* C19 witness: a pass has committed the frames of a grid rect and of a
\* manual rect, each with the id and the rect it was cut from
C19_Witness ==
  /\ passes = {}
  /\ ~isProcessing
  /\ Len(generatedFrames) >= 2
  /\ DistinctIds(generatedFrames)
  /\ \E i, j \in DOMAIN generatedFrames :
       /\ generatedFrames[i].id.prefix = "grid"
       /\ generatedFrames[j].id.prefix = "manual"
       /\ generatedFrames[j].rect \in {manualRects[k] : k \in DOMAIN manualRects}
       /\ generatedFrames[j].id = generatedFrames[j].rect.id
       /\ generatedFrames[i].id = generatedFrames[i].rect.id

\* C20: the hidden ids are filtered out before extractFrame is called: no rect
\* in the list of a generation pass, which holds the rects the pass calls
\* extractFrame for, has an id of the pass's hiddenRectIds, no frame the pass
\* has built has such an id, and no frame it commits has one.
C20_HiddenRectsNeverExtracted ==
  [][ /\ \A pass \in passes' :
           /\ \A i \in DOMAIN pass.rects : pass.rects[i].id \notin pass.hiddenRectIds
           /\ \A i \in DOMAIN pass.newFrames :
                pass.newFrames[i].id \notin pass.hiddenRectIds
      /\ \A pass \in passes :
           (pass.active /\ LastStepOf(pass)) =>
             \A i \in DOMAIN generatedFrames' :
               generatedFrames'[i].id \notin pass.hiddenRectIds ]_vars

\* C20 witness: with a grid rect hidden, a pass has committed the frames of
\* the other rects, and the hidden rect is one that gives a frame
C20_Witness ==
  /\ passes = {}
  /\ ~isProcessing
  /\ image # NULL
  /\ settings.mode = "grid"
  /\ Len(generatedFrames) >= 1
  /\ \E id \in hiddenRectIds :
       /\ \A i \in DOMAIN generatedFrames : generatedFrames[i].id # id
       /\ \E j \in DOMAIN calculateGridRects(image.width, image.height, settings.grid) :
            LET r == calculateGridRects(image.width, image.height, settings.grid)[j]
            IN r.id = id /\ IsFrame(extractFrame(image, r, settings))

\* C21 as stated: generatedFrames changes only by being replaced with the
\* complete output of one extraction pass, or by being cleared; no step
\* removes, inserts or moves single frames of the list.
C21_FramesOnlyReplacedOrCleared ==
  [][ generatedFrames' # generatedFrames =>
        \/ generatedFrames' = <<>>
        \/ \E pass \in passes :
             /\ pass.active
             /\ LastStepOf(pass)
             /\ generatedFrames' = CompleteOutput(pass) ]_vars

\* the frames of two lists are the same, whatever their order
SameFrames(a, b) == {a[i] : i \in DOMAIN a} = {b[i] : i \in DOMAIN b}

\* generation has come to rest on the extraction of the current rects under
\* the current settings
Settled ==
  /\ image # NULL
  /\ ~isProcessing
  /\ SameFrames(generatedFrames,
                ExpectedFrames(image, settings, islandRects, manualRects,
                               hiddenRectIds))

\* every stored rect has the positive size the spec requires of a Rect
PositiveSizes ==
  /\ \A i \in DOMAIN manualRects : manualRects[i].w > 0 /\ manualRects[i].h > 0
  /\ \A i \in DOMAIN islandRects : islandRects[i].w > 0 /\ islandRects[i].h > 0

\* C22 as stated: once an image is loaded and the inputs stop changing (the
\* user's events are finite in number; the rects are well-formed), a pass
\* commits, and from then on isProcessing is false and generatedFrames holds
\* the extraction of the current rect set under the current settings; in
\* every mode, islands mode with no island found included.
C22_GenerationSettles ==
  <>[](image # NULL /\ PositiveSizes) => <>[]Settled

\* the island rects of the image keyed with the settings of a pass
IslandsOfKeyed(pass) ==
  detectIslands(ColorKeyStep(pass.image, pass.settings.processing),
                pass.settings.islands.minWidth, pass.settings.islands.minHeight)

\* C23: whatever settings changes and mode switches came before, the rects a
\* running pass in islands mode iterates are the island rects of the image
\* keyed with the settings in force at that pass (then the manual rects,
\* less the hidden ones): no keyed-out pixel seeds or extends an island.
C23_IslandsOfCurrentKey ==
  \A pass \in passes :
    pass.settings.mode = "islands" =>
      pass.rects = FilterHidden(MergeRects(IslandsOfKeyed(pass), pass.manualRects),
                                pass.hiddenRectIds)

\* a step that empties a cache that held island rects
CacheEmptied == islandRects # <<>> /\ islandRects' = <<>>

\* C24: a pass in islands mode (the step of the timer firing) detects iff the
\* cached islandRects list is empty when it starts: then the detected rects
\* are stored and a re-render is due; otherwise the cache stays as it is, no
\* re-render is due and the pass iterates the cached rects.  The cache is
\* emptied only by a new image or Clear All (both also empty manualRects and
\* hiddenRectIds), by a change of minWidth/minHeight, or by a processing
\* update made in islands mode.
C24_DetectsIffCacheEmpty ==
  [][/\ (timer /\ ~timer' /\ settings.mode = "islands") =>
          IF islandRects = <<>>
            THEN /\ islandRects' = IslandsOfKeyed([image |-> image, settings |-> settings])
                 /\ effectPending'
            ELSE /\ islandRects' = islandRects
                 /\ ~effectPending'
                 /\ \A pass \in passes' \ passes :
                      pass.rects = FilterHidden(MergeRects(islandRects, manualRects),
                                                hiddenRectIds)
     /\ CacheEmptied =>
          \/ events' = events + 1 /\ manualRects' = <<>> /\ hiddenRectIds' = {}
          \/ settings'.islands # settings.islands
          \/ settings'.processing # settings.processing /\ settings.mode = "islands"
    ]_vars

\* a pass runs on a cache that a resize has made differ from what detection
\* gives, and the cache is still what the pass read
C24_Witness ==
  \E pass \in passes :
    /\ pass.settings.mode = "islands"
    /\ pass.cache # <<>>
    /\ pass.cache # IslandsOfKeyed(pass)
    /\ islandRects = pass.cache

\* the automatically generated rects of the current render
AutoRects ==
  IF image = NULL THEN <<>>
  ELSE IF settings.mode = "grid"
    THEN calculateGridRects(image.width, image.height, settings.grid)
    ELSE IF settings.mode = "islands" THEN islandRects ELSE <<>>

\* C25: after any sequence of deletions and settings changes, a hidden id
\* suppresses no automatically generated rect other than the one the user
\* deleted: an automatic rect whose id is hidden is the rect of the frame that
\* was deleted under that id.
C25_HiddenIdNamesDeletedRect ==
  \A i \in DOMAIN AutoRects :
    AutoRects[i].id \in hiddenRectIds => AutoRects[i] \in deleted

\* the ids a step removes from the frames or the manual rects, or hides
DeletedIds ==
  (IdsOf(generatedFrames) \ IdsOf(generatedFrames'))
    \cup (IdsOf(manualRects) \ IdsOf(manualRects'))
    \cup (hiddenRectIds' \ hiddenRectIds)

\* C26: a deletion is routed by the prefix of each id: a manual id leaves
\* manualRects and is not hidden, any other id becomes hidden; islandRects
\* and the settings stay; the frames with those ids leave generatedFrames; the
\* selection is cleared iff the selected id is among the deleted ones.
C26_DeletionRoutedByPrefix ==
  [][(events' = events + 1 /\ DeletedIds # {}) =>
       /\ manualRects' = SelectSeq(manualRects, LAMBDA r : r.id \notin DeletedIds)
       /\ hiddenRectIds' =
            hiddenRectIds \cup {id \in DeletedIds : id.prefix # "manual"}
       /\ \A id \in DeletedIds : id.prefix = "manual" => id \notin hiddenRectIds'
       /\ islandRects' = islandRects
       /\ settings' = settings
       /\ generatedFrames' =
            SelectSeq(generatedFrames, LAMBDA f : f.id \notin DeletedIds)
       /\ selectedRectId' =
            IF selectedRectId \in DeletedIds THEN NULL ELSE selectedRectId
    ]_vars

\* a frame was deleted and the rect that is selected is not the deleted one
C26_Witness ==
  /\ deleted # {}
  /\ selectedRectId # NULL
  /\ \A r \in deleted : r.id # selectedRectId
  /\ events = 2

\* the pictures as their files hold them
Loadable == {p.image : p \in SavedProjects} \cup Uploads

\* C29: after any number of passes, superseded ones included, and with any
\* colour-key settings, the source image holds the pixels of its file, and so
\* does the image each running pass reads; with color-keying (and autoTrim)
\* off, the frames of a settled pass carry the alpha of the file.
C29_SourceImageNeverMutated ==
  /\ image # NULL => image \in Loadable
  /\ \A pass \in passes : pass.image \in Loadable
  /\ (/\ AtRest
      /\ image # NULL
      /\ ~settings.processing.colorKeyEnabled
      /\ ~settings.processing.autoTrim) =>
       \A i \in DOMAIN generatedFrames :
         generatedFrames[i].blob = SliceImage(image, generatedFrames[i].rect)

\* color-keying was on for the passes of the saved grid project and the user
\* has switched it off: the settled frames show the magenta column opaque
C29_Witness ==
  /\ AtRest
  /\ image = Sheet
  /\ settings.mode = "grid"
  /\ ~settings.processing.colorKeyEnabled
  /\ ~settings.processing.autoTrim
  /\ events > 0
  /\ \E i \in DOMAIN generatedFrames :
       \E j \in DOMAIN generatedFrames[i].blob.data :
         generatedFrames[i].blob.data[j] = KeyColour

\* C30: while the preview modal is open with a non-empty frames list, the
\* index it displays is in range at every render, 0 <= currentFrame <
\* frames.length, whatever the interleaving of timer ticks, play/pause
\* toggles and changes of the frames list.
C30_PreviewIndexInRange ==
  (preview.open /\ Len(generatedFrames) > 0) =>
    (preview.currentFrame >= 0 /\ preview.currentFrame < Len(generatedFrames))

=============================================================================
